---- MODULE Spec2Model ----
(***************************************************************************)
(* Model of the 4-in-a-row server: the game (backend/game), the session    *)
(* registry (game.Manager) and the scripted opponent (backend/bot).        *)
(*                                                                         *)
(* Time is counted in minutes.  A delay shorter than one clock step (the    *)
(* 10 s pairing timeout, the 500 ms scripted-move delay) is not visible on  *)
(* this clock: the deferred task may run at any later moment.               *)
(*                                                                         *)
(* A nil pointer is the empty sequence <<>>, a non-nil pointer to v is     *)
(* <<v>>.  A string is the sequence of its characters.  A game id (a uuid   *)
(* in the code) is a positive number, drawn fresh from nextId.              *)
(***************************************************************************)
EXTENDS Integers, Sequences, FiniteSets, TLC

\* ------------------------------------------------------------------------
\* Program constants
\* ------------------------------------------------------------------------
ROWS == 6
COLS == 7
EMPTY == 0
PLAYER1 == 1
PLAYER2 == 2
\* username[:20]
MaxNameLen == 20
\* 30*time.Minute and 15*time.Minute of the sweep
FinishedMaxAge == 30
WaitingMaxAge == 15

\* ------------------------------------------------------------------------
\* Bounds of the model
\* ------------------------------------------------------------------------
\* number of games ever created (uuids handed out)
MaxGames == 2
\* minutes the clock advances by in one step, and the minute it stops at
ClockStep == 31
MaxTime == 31
\* number of pieces placed over all games
MaxPieces == 8

\* ------------------------------------------------------------------------
\* Inputs
\* ------------------------------------------------------------------------
Blank == <<" ">>
Alice == <<"a">>
PaddedAlice == <<" ", "a", " ">>
Bob == <<"b">>
LongName == [i \in 1..(MaxNameLen + 1) |-> "x"]
BotName == <<"S", "m", "a", "r", "t", " ", "B", "o", "t">>
\* the names FindOrCreateGame is called with
Usernames == {Blank, Alice, PaddedAlice, Bob}
\* the names JoinSpecificGame is called with
JoinNames == {Alice, Bob}
\* the names MakeMove is called with
MoveNames == {Alice, PaddedAlice, Bob}
\* the columns MakeMove is called with: a playable one and one beyond each edge
Columns == {-1, 0, COLS}
\* the game ids JoinSpecificGame is called with: every id handed out, and
\* one that no game has
GameIDs == 1..(MaxGames + 1)
\* the game ids MakeMove and MakeBotMove are called with: the first game,
\* and an id that no game has
MoveGameIDs == {1, MaxGames + 1}

Nil == <<>>
Ptr(v) == <<v>>

\* ------------------------------------------------------------------------
\* strings.TrimSpace and the truncation of FindOrCreateGame
\* ------------------------------------------------------------------------
IsSpace(ch) == ch \in {" ", "\t", "\n", "\r"}

RECURSIVE TrimLeft(_)
TrimLeft(s) ==
    IF s = <<>> THEN s
    ELSE IF IsSpace(Head(s)) THEN TrimLeft(Tail(s))
    ELSE s

RECURSIVE TrimRight(_)
TrimRight(s) ==
    IF s = <<>> THEN s
    ELSE IF IsSpace(s[Len(s)]) THEN TrimRight(SubSeq(s, 1, Len(s) - 1))
    ELSE s

TrimSpace(s) == TrimRight(TrimLeft(s))

Truncate(s) == IF Len(s) > MaxNameLen THEN SubSeq(s, 1, MaxNameLen) ELSE s

\* ------------------------------------------------------------------------
\* game.Game
\* ------------------------------------------------------------------------
RowIdx == 0..(ROWS - 1)
ColIdx == 0..(COLS - 1)
Directions_NoAntiDiagonal == <<  <<0, 1>>, <<1, 0>>, <<1, 1>>  >>

Directions == <<  <<0, 1>>, <<1, 0>>, <<1, 1>>, <<1, -1>>  >>

EmptyBoard == [r \in RowIdx |-> [c \in ColIdx |-> EMPTY]]

Player(username, isBot) ==
    [ID |-> username, Username |-> username, IsBot |-> isBot]

BotPlayer == [ID |-> <<"b", "o", "t">>, Username |-> BotName, IsBot |-> TRUE]

NewGame(player1, id, t) ==
    [ID          |-> id,
     Board       |-> EmptyBoard,
     CurrentTurn |-> PLAYER1,
     Status      |-> "waiting",
     Winner      |-> 0,
     Player1     |-> player1,
     Player2     |-> Nil,
     CreatedAt   |-> t,
     LastMove    |-> t,
     IsBot       |-> FALSE]

\* AddPlayer2 without the change of the status
AddPlayer2_KeepsStatus(g, player) ==
    [g EXCEPT !.Player2 = Ptr(player),
              !.IsBot   = player.IsBot]

AddPlayer2(g, player) ==
    [g EXCEPT !.Player2 = Ptr(player),
              !.Status  = "playing",
              !.IsBot   = player.IsBot]

InBoard(r, c) == r >= 0 /\ r < ROWS /\ c >= 0 /\ c < COLS

\* the counting loop with two steps instead of three
RECURSIVE CountRun_TwoSteps(_, _, _, _, _, _, _)
CountRun_TwoSteps(board, row, col, dr, dc, player, i) ==
    IF i >= 3 THEN 0
    ELSE LET newRow == row + dr * i
             newCol == col + dc * i
         IN  IF ~InBoard(newRow, newCol) THEN 0
             ELSE IF board[newRow][newCol] = player
                  THEN 1 + CountRun_TwoSteps(board, row, col, dr, dc, player, i + 1)
                  ELSE 0

\* one of the two counting loops of checkWin: steps i..3 from (row, col)
RECURSIVE CountRun(_, _, _, _, _, _, _)
CountRun(board, row, col, dr, dc, player, i) ==
    IF i >= 4 THEN 0
    ELSE LET newRow == row + dr * i
             newCol == col + dc * i
         IN  IF ~InBoard(newRow, newCol) THEN 0
             ELSE IF board[newRow][newCol] = player
                  THEN 1 + CountRun(board, row, col, dr, dc, player, i + 1)
                  ELSE 0

Game_checkWin(board, row, col, player) ==
    \E d \in 1..Len(Directions) :
        LET dir == Directions[d]
            count == 1 + CountRun(board, row, col, dir[1], dir[2], player, 1)
                       + CountRun(board, row, col, -dir[1], -dir[2], player, 1)
        IN  count >= 4

isBoardFull_Never(board) == FALSE

isBoardFull(board) == ~ \E col \in ColIdx : board[0][col] = EMPTY

GetValidMoves(board) == {col \in ColIdx : board[0][col] = EMPTY}

\* the row loop of MakeMove: the first empty row from the bottom, else -1
LowestEmptyRow_FromTop(board, column) ==
    LET empties == {r \in RowIdx : board[r][column] = EMPTY}
    IN  IF empties = {} THEN -1
        ELSE CHOOSE r \in empties : \A q \in empties : q >= r

LowestEmptyRow(board, column) ==
    LET empties == {r \in RowIdx : board[r][column] = EMPTY}
    IN  IF empties = {} THEN -1
        ELSE CHOOSE r \in empties : \A q \in empties : q <= r

NoMove == Nil

\* the checks of Game.MakeMove, in their order: the error, or "nil"
MoveError_TurnAfterColumn(g, column, player) ==
    IF g.Status # "playing" THEN "ErrGameNotActive"
    ELSE IF column < 0 \/ column >= COLS THEN "ErrInvalidColumn"
    ELSE IF g.CurrentTurn # player THEN "ErrNotYourTurn"
    ELSE IF LowestEmptyRow(g.Board, column) = -1 THEN "ErrColumnFull"
    ELSE "nil"

MoveError_OnlyWaitingInactive(g, column, player) ==
    IF g.Status = "waiting" THEN "ErrGameNotActive"
    ELSE IF g.CurrentTurn # player THEN "ErrNotYourTurn"
    ELSE IF column < 0 \/ column >= COLS THEN "ErrInvalidColumn"
    ELSE IF LowestEmptyRow(g.Board, column) = -1 THEN "ErrColumnFull"
    ELSE "nil"

MoveError(g, column, player) ==
    IF g.Status # "playing" THEN "ErrGameNotActive"
    ELSE IF g.CurrentTurn # player THEN "ErrNotYourTurn"
    ELSE IF column < 0 \/ column >= COLS THEN "ErrInvalidColumn"
    ELSE IF LowestEmptyRow(g.Board, column) = -1 THEN "ErrColumnFull"
    ELSE "nil"

\* a return of Game.MakeMove with an error: the game is as it was
MoveFailed_TouchesLastMove(g, e, t) ==
    [err |-> e, game |-> [g EXCEPT !.LastMove = t], move |-> NoMove]

MoveFailed(g, e, t) == [err |-> e, game |-> g, move |-> NoMove]

\* g.Board[row][column] = player
PlacePiece_WholeColumn(board, row, column, player) ==
    [r \in RowIdx |-> [board[r] EXCEPT ![column] = player]]

PlacePiece(board, row, column, player) ==
    [board EXCEPT ![row][column] = player]

\* the switch of turns at the end of MakeMove
SwitchTurn_Stays(turn) == turn

SwitchTurn(turn) == IF turn = PLAYER1 THEN PLAYER2 ELSE PLAYER1

\* the game is a pointer: what MakeMove writes, it writes into the registry
Game_MakeMove(g, column, player, t) ==
    LET e == MoveError(g, column, player)
    IN  IF e # "nil" THEN MoveFailed(g, e, t)
        ELSE LET row == LowestEmptyRow(g.Board, column)
                 board == PlacePiece(g.Board, row, column, player)
                 placed == [g EXCEPT !.Board = board, !.LastMove = t]
                 move == [GameID |-> g.ID, Player |-> player,
                          Column |-> column, Row |-> row]
                 after ==
                     IF Game_checkWin(board, row, column, player)
                     THEN [placed EXCEPT !.Status = "finished",
                                         !.Winner = player]
                     ELSE IF isBoardFull(board)
                     THEN [placed EXCEPT !.Status = "finished",
                                         !.Winner = 0]
                     ELSE [placed EXCEPT !.CurrentTurn = SwitchTurn(@)]
             IN  [err |-> "nil", game |-> after, move |-> Ptr(move)]

\* ------------------------------------------------------------------------
\* bot.Bot.  A draw of rand.Float64() is a number of hundredths; the result
\* of a call is the set of columns it can return over all draws.
\* ------------------------------------------------------------------------
FloatDraws == {0, 5, 20, 25, 30, 99}

canDropPiece(board, col) == col >= 0 /\ col < COLS /\ board[0][col] = EMPTY

\* dropPiece changes the board it is given and returns the row
dropPiece(board, col, player) ==
    LET row == LowestEmptyRow(board, col)
    IN  IF row = -1 THEN [row |-> -1, board |-> board]
        ELSE [row |-> row, board |-> [board EXCEPT ![row][col] = player]]

Bot_checkWin(board, row, col, player) ==
    \E d \in 1..Len(Directions) :
        LET dir == Directions[d]
            count == 1 + CountRun(board, row, col, dir[1], dir[2], player, 1)
                       + CountRun(board, row, col, -dir[1], -dir[2], player, 1)
        IN  count >= 4

getValidMoves(board) == {col \in ColIdx : canDropPiece(board, col)}

\* one of the two loops of evaluateDirection: <<same marks, open ends>>
RECURSIVE ScanRun(_, _, _, _, _, _, _)
ScanRun(board, row, col, dr, dc, player, i) ==
    IF i >= 4 THEN <<0, 0>>
    ELSE LET newRow == row + dr * i
             newCol == col + dc * i
         IN  IF ~InBoard(newRow, newCol) THEN <<0, 0>>
             ELSE IF board[newRow][newCol] = player
                  THEN LET rest == ScanRun(board, row, col, dr, dc, player, i + 1)
                       IN  <<1 + rest[1], rest[2]>>
                  ELSE IF board[newRow][newCol] = EMPTY THEN <<0, 1>>
                  ELSE <<0, 0>>

evaluateDirection(board, row, col, deltaRow, deltaCol, player) ==
    LET pos == ScanRun(board, row, col, deltaRow, deltaCol, player, 1)
        neg == ScanRun(board, row, col, -deltaRow, -deltaCol, player, 1)
        count == 1 + pos[1] + neg[1]
        openEnds == pos[2] + neg[2]
    IN  IF count >= 4 THEN 1000
        ELSE IF count = 3 /\ openEnds > 0 THEN 50
        ELSE IF count = 2 /\ openEnds > 0 THEN 10
        ELSE IF count = 1 /\ openEnds > 1 THEN 1
        ELSE 0

RECURSIVE SumDirections(_, _, _, _, _)
SumDirections(board, row, col, player, d) ==
    IF d > Len(Directions) THEN 0
    ELSE evaluateDirection(board, row, col,
                           Directions[d][1], Directions[d][2], player)
         + SumDirections(board, row, col, player, d + 1)

evaluatePosition(board, row, col, player) ==
    SumDirections(board, row, col, player, 1)
    + (IF col = 3 THEN 3 ELSE IF col = 2 \/ col = 4 THEN 2 ELSE 0)

RECURSIVE evaluateFuturePositions(_, _, _)
RECURSIVE SumFuture(_, _, _, _)
SumFuture(board, player, depth, col) ==
    IF col >= COLS THEN 0
    ELSE (IF canDropPiece(board, col)
          THEN LET dp == dropPiece(board, col, player)
               IN  evaluatePosition(dp.board, dp.row, col, player)
                   + evaluateFuturePositions(dp.board, player, depth - 1)
          ELSE 0)
         + SumFuture(board, player, depth, col + 1)

evaluateFuturePositions(board, player, depth) ==
    IF depth <= 0 THEN 0
    ELSE LET n == Cardinality(getValidMoves(board))
         IN  IF n > 0 THEN SumFuture(board, player, depth, 0) \div n ELSE 0

StrategicScore(board, player, difficultyLevel, col) ==
    LET dp == dropPiece(board, col, player)
        score == evaluatePosition(dp.board, dp.row, col, player)
    IN  IF difficultyLevel >= 3
        THEN score + evaluateFuturePositions(dp.board, player, 2)
        ELSE IF difficultyLevel >= 1
        THEN score + evaluateFuturePositions(dp.board, player, 1)
        ELSE score

\* the loop of findBestStrategicMove from column col on: <<bestScore, bestCol>>
RECURSIVE BestFrom(_, _, _, _, _, _)
BestFrom(board, player, difficultyLevel, col, bestScore, bestCol) ==
    IF col >= COLS THEN <<bestScore, bestCol>>
    ELSE IF canDropPiece(board, col)
         THEN LET score == StrategicScore(board, player, difficultyLevel, col)
              IN  IF score > bestScore
                  THEN BestFrom(board, player, difficultyLevel, col + 1, score, col)
                  ELSE BestFrom(board, player, difficultyLevel, col + 1,
                                bestScore, bestCol)
         ELSE BestFrom(board, player, difficultyLevel, col + 1, bestScore, bestCol)

findBestStrategicMove(board, player, difficultyLevel) ==
    BestFrom(board, player, difficultyLevel, 0, -1, -1)[2]

\* the first column of order (a sequence) that can take a piece, else -1
RECURSIVE FirstDroppable(_, _, _)
FirstDroppable(board, order, i) ==
    IF i > Len(order) THEN -1
    ELSE IF canDropPiece(board, order[i]) THEN order[i]
    ELSE FirstDroppable(board, order, i + 1)

MinOf(S) == CHOOSE x \in S : \A y \in S : x <= y

\* makeSuboptimalMove with the first edge column taken unchecked
makeSuboptimalMove_FirstEdge(board, player) == {0}

makeSuboptimalMove(board, player) ==
    LET validMoves == getValidMoves(board)
        edge == FirstDroppable(board, <<0, 6, 1, 5>>, 1)
    IN  IF validMoves = {} THEN {0}
        ELSE IF edge # -1 THEN {edge}
        ELSE validMoves

GetBestMoveWithDifficulty(board, player, playerWins) ==
    LET difficultyLevel == IF playerWins > 5 THEN 5 ELSE playerWins
        raw == 30 - difficultyLevel * 5
        mistakeChance == IF raw < 5 THEN 5 ELSE raw
        opponent == IF player = PLAYER1 THEN PLAYER2 ELSE PLAYER1
        WinsAt(col, who) ==
            /\ canDropPiece(board, col)
            /\ LET dp == dropPiece(board, col, who)
               IN  Bot_checkWin(dp.board, dp.row, col, who)
        winning == {col \in ColIdx : WinsAt(col, player)}
        blockingMoves == {col \in ColIdx : WinsAt(col, opponent)}
        bestCol == findBestStrategicMove(board, player, difficultyLevel)
        center == FirstDroppable(board, <<3, 2, 4, 1, 5, 0, 6>>, 1)
        validMoves == getValidMoves(board)
        Planned(r2) ==
            IF winning # {} THEN {MinOf(winning)}
            ELSE IF blockingMoves # {} /\ (difficultyLevel >= 2 \/ r2 > mistakeChance)
            THEN {MinOf(blockingMoves)}
            ELSE IF bestCol # -1 THEN {bestCol}
            ELSE IF difficultyLevel >= 1 /\ center # -1 THEN {center}
            ELSE IF validMoves # {} THEN validMoves
            ELSE {0}
    IN  UNION {IF difficultyLevel < 3 /\ r1 < mistakeChance
               THEN makeSuboptimalMove(board, player)
               ELSE UNION {Planned(r2) : r2 \in FloatDraws}
               : r1 \in FloatDraws}

\* ------------------------------------------------------------------------
\* game.Manager.  An operation is a function of the registry it finds
\* (R: games, waitingPlayer, leaderboard, playerWins) to the registry it
\* leaves and the values it returns.  A returned *Game is the game's id,
\* 0 for nil.  An operation whose result depends on the iteration order of
\* a map or on the random source yields the set of its possible outcomes.
\* ------------------------------------------------------------------------
WaitingGamesOf(R, name) ==
    {id \in DOMAIN R.games : /\ R.games[id].Status = "waiting"
                            /\ R.games[id].Player1.Username = name}

\* the pairing of FindOrCreateGame: player takes slot B of the waiting game g
PairWaiting_KeepsQueue(R, g, player) ==
    [R EXCEPT !.games[g] = AddPlayer2(@, player)]

PairWaiting(R, g, player) ==
    [R EXCEPT !.games[g] = AddPlayer2(@, player),
              !.waitingPlayer = Nil]

\* the rejoin of FindOrCreateGame: the waiting games of the queued name
OwnWaitingGames_NoneFound(R, name) == {}

OwnWaitingGames(R, name) ==
    IF R.waitingPlayer # Nil /\ R.waitingPlayer[1].Username = name
    THEN WaitingGamesOf(R, name) ELSE {}

\* the guard of startBotTimeout
TimeoutApplies_IgnoresStatus(R, gameID) == gameID \in DOMAIN R.games

TimeoutApplies(R, gameID) ==
    gameID \in DOMAIN R.games /\ R.games[gameID].Status = "waiting"

\* the injection of startBotTimeout
InjectBot_KeepsQueue(R, gameID) ==
    [R EXCEPT !.games[gameID] = AddPlayer2(@, BotPlayer)]

InjectBot(R, gameID) ==
    [R EXCEPT !.games[gameID] = AddPlayer2(@, BotPlayer),
              !.waitingPlayer = Nil]

\* JoinSpecificGame clears the queue if it holds the game's first player
QueueAfterJoin_Kept(wp, g) == wp

QueueAfterJoin(wp, g) ==
    IF wp # Nil /\ wp[1].Username = g.Player1.Username THEN Nil ELSE wp

FindOrCreateGame(R, username, id, t) ==
    IF Len(TrimSpace(username)) = 0
    THEN {[reg |-> R, game |-> 0, player |-> Nil,
           isWaiting |-> FALSE, created |-> FALSE]}
    ELSE
    LET name == Truncate(TrimSpace(username))
        player == Player(name, FALSE)
        wp == R.waitingPlayer
        \* the loop over m.games of the pairing branch
        waitingGame == IF wp # Nil /\ wp[1].Username # name
                       THEN WaitingGamesOf(R, wp[1].Username) ELSE {}
        \* the loop over m.games of the rejoin branch
        own == OwnWaitingGames(R, name)
    IN  IF waitingGame # {}
        THEN {[reg |-> PairWaiting(R, g, player),
               game |-> g, player |-> Ptr(player),
               isWaiting |-> FALSE, created |-> FALSE] : g \in waitingGame}
        ELSE IF own # {}
        THEN {[reg |-> R, game |-> g, player |-> Ptr(player),
               isWaiting |-> TRUE, created |-> FALSE] : g \in own}
        ELSE {[reg |-> [R EXCEPT !.games = (id :> NewGame(player, id, t)) @@ @,
                                 !.waitingPlayer = Ptr(player)],
               game |-> id, player |-> Ptr(player),
               isWaiting |-> TRUE, created |-> TRUE]}

startBotTimeout(R, gameID) ==
    IF ~TimeoutApplies(R, gameID)
    THEN [reg |-> R, injected |-> FALSE]
    ELSE [reg |-> InjectBot(R, gameID), injected |-> TRUE]

WinsOf(playerWins, name) ==
    IF name \in DOMAIN playerWins THEN playerWins[name] ELSE 0

\* one of the two blocks of updateLeaderboard: the entry of one human player
UpdatePlayerStats(R, username, won, duration) ==
    IF username \in DOMAIN R.leaderboard
    THEN LET stats == R.leaderboard[username]
             counted == [stats EXCEPT
                            !.GamesPlayed = @ + 1,
                            !.TotalTime = @ + duration,
                            !.Wins = IF won THEN @ + 1 ELSE @]
             timed == IF counted.BestTime = 0 \/ (won /\ duration < counted.BestTime)
                      THEN [counted EXCEPT !.BestTime = duration]
                      ELSE counted
         IN  [R EXCEPT !.leaderboard[username] = timed,
                       !.playerWins = (username :>
                           (IF won THEN WinsOf(R.playerWins, username) + 1 ELSE 0))
                           @@ @]
    ELSE LET stats == [Username    |-> username,
                       GamesPlayed |-> 1,
                       TotalTime   |-> duration,
                       Wins        |-> IF won THEN 1 ELSE 0,
                       BestTime    |-> IF won THEN duration ELSE 0]
         IN  [R EXCEPT !.leaderboard = (username :> stats) @@ @,
                       !.playerWins = (username :> (IF won THEN 1 ELSE 0)) @@ @]

\* updateLeaderboard without its second block
updateLeaderboard_SlotAOnly(R, g, duration) ==
    UpdatePlayerStats(R, g.Player1.Username, g.Winner = PLAYER1, duration)

updateLeaderboard(R, g, duration) ==
    LET first == UpdatePlayerStats(R, g.Player1.Username,
                                   g.Winner = PLAYER1, duration)
    IN  IF g.Player2 # Nil /\ ~g.Player2[1].IsBot
        THEN UpdatePlayerStats(first, g.Player2[1].Username,
                               g.Winner = PLAYER2, duration)
        ELSE first

\* the insert into the database changes nothing of the registry
saveGameResult(R, g, t) == updateLeaderboard(R, g, t - g.CreatedAt)

\* the part MakeMove and MakeBotMove share after Game.MakeMove
AfterMove(R, gameID, res, t) ==
    LET moved == [R EXCEPT !.games[gameID] = res.game]
    IN  IF res.err # "nil"
        THEN [reg |-> moved, err |-> res.err, move |-> NoMove, game |-> 0]
        ELSE [reg  |-> IF res.game.Status = "finished"
                       THEN saveGameResult(moved, res.game, t) ELSE moved,
              err  |-> "nil", move |-> res.move, game |-> gameID]

Manager_MakeMove(R, gameID, column, playerUsername, t) ==
    IF gameID \notin DOMAIN R.games
    THEN [reg |-> R, err |-> "ErrGameNotFound", move |-> NoMove, game |-> 0]
    ELSE LET g == R.games[gameID]
             playerNum ==
                 IF g.Player1.Username = playerUsername THEN PLAYER1
                 ELSE IF g.Player2 # Nil /\ g.Player2[1].Username = playerUsername
                      THEN PLAYER2
                 ELSE 0
         IN  IF playerNum = 0
             THEN [reg |-> R, err |-> "ErrPlayerNotFound",
                   move |-> NoMove, game |-> 0]
             ELSE AfterMove(R, gameID, Game_MakeMove(g, column, playerNum, t), t)

MakeBotMove(R, gameID, t) ==
    IF gameID \notin DOMAIN R.games
    THEN {[reg |-> R, err |-> "ErrGameNotFound", move |-> NoMove, game |-> 0]}
    ELSE LET g == R.games[gameID]
         IN  IF ~g.IsBot \/ g.CurrentTurn # PLAYER2 \/ g.Status # "playing"
             THEN {[reg |-> R, err |-> "nil", move |-> NoMove, game |-> gameID]}
             ELSE {AfterMove(R, gameID, Game_MakeMove(g, column, PLAYER2, t), t) :
                     column \in GetBestMoveWithDifficulty(g.Board, PLAYER2,
                                    WinsOf(R.playerWins, g.Player1.Username))}

JoinSpecificGame_SlotAFirst(R, username, gameID) ==
    LET player == Player(username, FALSE)
        Failed(e) == [reg |-> R, err |-> e, game |-> 0, player |-> Nil]
    IN  IF gameID \notin DOMAIN R.games THEN Failed("ErrGameNotFound")
        ELSE LET g == R.games[gameID]
             IN  IF g.Player1.Username = username
                 THEN [reg |-> R, err |-> "nil", game |-> gameID,
                       player |-> Ptr(player)]
                 ELSE IF g.Status # "waiting" THEN Failed("ErrGameNotActive")
                 ELSE IF g.Player2 # Nil THEN Failed("ErrGameFull")
                 ELSE [reg |-> [R EXCEPT
                          !.games[gameID] = AddPlayer2(@, player),
                          !.waitingPlayer = QueueAfterJoin(@, g)],
                       err |-> "nil", game |-> gameID, player |-> Ptr(player)]

JoinSpecificGame(R, username, gameID) ==
    LET player == Player(username, FALSE)
        Failed(e) == [reg |-> R, err |-> e, game |-> 0, player |-> Nil]
    IN  IF gameID \notin DOMAIN R.games THEN Failed("ErrGameNotFound")
        ELSE LET g == R.games[gameID]
             IN  IF g.Status # "waiting" THEN Failed("ErrGameNotActive")
                 ELSE IF g.Player1.Username = username
                 THEN [reg |-> R, err |-> "nil", game |-> gameID,
                       player |-> Ptr(player)]
                 ELSE IF g.Player2 # Nil THEN Failed("ErrGameFull")
                 ELSE [reg |-> [R EXCEPT
                          !.games[gameID] = AddPlayer2(@, player),
                          !.waitingPlayer = QueueAfterJoin(@, g)],
                       err |-> "nil", game |-> gameID, player |-> Ptr(player)]

\* the two tests of cleanupOldGames
OldFinished_AnyStatus(g, t) == t - g.LastMove > FinishedMaxAge

OldFinished(g, t) ==
    g.Status = "finished" /\ t - g.LastMove > FinishedMaxAge

OldWaiting(g, t) ==
    g.Status = "waiting" /\ t - g.CreatedAt > WaitingMaxAge

\* one round of the loop of cleanupOldGames, at time t
cleanupOldGames(R, t) ==
    LET oldFinished == {id \in DOMAIN R.games : OldFinished(R.games[id], t)}
        oldWaiting == {id \in DOMAIN R.games : OldWaiting(R.games[id], t)}
        kept == DOMAIN R.games \ (oldFinished \cup oldWaiting)
    IN  [reg |-> [R EXCEPT
             !.games = [id \in kept |-> R.games[id]],
             !.waitingPlayer =
                 IF @ # Nil /\ \E id \in oldWaiting :
                                  @[1].Username = R.games[id].Player1.Username
                 THEN Nil ELSE @],
         removed |-> oldFinished \cup oldWaiting]

\* ------------------------------------------------------------------------
\* State.  Every operation of the Manager runs between m.mutex.Lock() and
\* the deferred m.mutex.Unlock(): the step that takes the lock reads the
\* registry and works out the operation's outcome, the step that releases
\* the lock makes its writes visible.  locked holds the operations that are
\* between the two steps.
\* ------------------------------------------------------------------------
VARIABLES
    games,          \* Manager.games
    waitingPlayer,  \* Manager.waitingPlayer
    leaderboard,    \* Manager.leaderboard
    playerWins,     \* Manager.playerWins
    locked,         \* the operations holding Manager.mutex
    timers,         \* game ids of the startBotTimeout tasks still asleep
    nextId,         \* the next game id uuid.New() hands out
    now,            \* time.Now(), in minutes
    moves,          \* pieces placed so far
    readers,        \* the accessors that are reading the Manager's fields
    callsDone,      \* the calls out of the Manager the mutex holder has finished
    inCall,         \* the mutex holder is inside its next call out of the Manager
    hubMutex,       \* the tasks holding Hub.mutex, each with its mode
    toAppend,       \* the connections about to enter Hub.gameClients
    gameClients,    \* Hub.gameClients
    connGame,       \* c.gameID of each connection, 0 for ""
    clients,        \* Hub.clients
    send,           \* the messages queued in c.send of each connection
    sendClosed,     \* c.send of the connection has been closed
    readPump,       \* where the readPump of each connection is
    connClosed,     \* c.conn is closed, by the peer or by writePump
    toReply,        \* the connections about to answer a join
    panicking,      \* the connections whose handler is unwinding a panic
    crashed,        \* a panic reached the top of a goroutine
    frame,          \* the message readPump has handed to handleMessage
    synced,         \* the connections that took Hub.mutex after the mutex
                    \* holder's Hub.onGameUpdate released it
    botTasks,       \* the goroutines makeMove of each connection has started
                    \* for the scripted move
    connName        \* c.username of each connection whose frames carry a
                    \* name of their own, <<>> for ""; a connection whose
                    \* frames carry no name sends them with the name it is
                    \* called by

\* no message is being handled; move is the *Move the handler got back
\* from MakeMove, named by the number of pieces on the board once it was
\* placed, 0 for nil
NoFrame ==
    [type |-> "none", gameID |-> 0, column |-> 0, err |-> "nil", move |-> 0]

\* no goroutine of makeMove is running: asleep counts those that have not
\* called MakeBotMove yet, moved holds the game and the move of each that
\* has got a move back and is about to broadcast it
NoTasks == [asleep |-> 0, moved |-> <<>>]

\* the variables the Manager's mutating operations do not write
lockVars == <<callsDone, inCall, hubMutex, toAppend, gameClients, connGame>>

connVars == <<clients, send, sendClosed, readPump, connClosed, toReply,
              panicking, crashed>>

auxVars == <<readers, lockVars, connVars, frame, synced, botTasks, connName>>

vars == <<games, waitingPlayer, leaderboard, playerWins, locked, timers,
          nextId, now, moves, auxVars>>

Reg == [games |-> games, waitingPlayer |-> waitingPlayer,
        leaderboard |-> leaderboard, playerWins |-> playerWins]

AuxInit ==
    /\ readers = {}
    /\ callsDone = 0
    /\ inCall = FALSE
    /\ hubMutex = {}
    /\ toAppend = {}
    /\ gameClients = <<>>
    /\ clients = {}
    /\ connGame = [c \in JoinNames |-> 0]
    /\ send = [c \in JoinNames |-> <<>>]
    /\ sendClosed = [c \in JoinNames |-> FALSE]
    /\ readPump = [c \in JoinNames |-> "none"]
    /\ connClosed = [c \in JoinNames |-> FALSE]
    /\ toReply = {}
    /\ panicking = {}
    /\ crashed = FALSE
    /\ frame = [c \in JoinNames |-> NoFrame]
    /\ synced = {}
    /\ botTasks = [c \in JoinNames |-> NoTasks]
    /\ connName = [c \in JoinNames |-> <<>>]

Init ==
    /\ AuxInit
    /\ games = <<>>
    /\ waitingPlayer = Nil
    /\ leaderboard = <<>>
    /\ playerWins = <<>>
    /\ locked = {}
    /\ timers = {}
    /\ nextId = 1
    /\ now = 0
    /\ moves = 0

\* m.mutex.Lock() returns only while no other operation holds the mutex
MutexFree_Broken == TRUE

MutexFree == locked = {} /\ \A r \in readers : ~r.lock

\* the operation op, called with args, takes the lock and works out out
Enter(op, args, out) ==
    /\ locked' = locked \cup {[op |-> op, args |-> args, out |-> out]}
    /\ UNCHANGED <<games, waitingPlayer, leaderboard, playerWins, now, moves>>
    /\ UNCHANGED auxVars

\* creating a game takes a fresh id and starts the game's startBotTimeout task
CallFindOrCreateGame(username) ==
    /\ MutexFree
    /\ \E out \in FindOrCreateGame(Reg, username, nextId, now) :
          /\ out.created => nextId <= MaxGames
          /\ nextId' = IF out.created THEN nextId + 1 ELSE nextId
          /\ timers' = IF out.created THEN timers \cup {out.game} ELSE timers
          /\ Enter("FindOrCreateGame", [username |-> username], out)

CallJoinSpecificGame(username, gameID) ==
    /\ MutexFree
    /\ Enter("JoinSpecificGame", [username |-> username, gameID |-> gameID],
             JoinSpecificGame(Reg, username, gameID))
    /\ UNCHANGED <<timers, nextId>>

CallMakeMove(gameID, column, playerUsername) ==
    /\ MutexFree
    /\ LET out == Manager_MakeMove(Reg, gameID, column, playerUsername, now)
       IN  /\ out.err = "nil" => moves < MaxPieces
           /\ Enter("MakeMove", [gameID |-> gameID, column |-> column,
                                 username |-> playerUsername], out)
    /\ UNCHANGED <<timers, nextId>>

CallMakeBotMove(gameID) ==
    /\ MutexFree
    /\ \E out \in MakeBotMove(Reg, gameID, now) :
          /\ out.move # NoMove => moves < MaxPieces
          /\ Enter("MakeBotMove", [gameID |-> gameID], out)
    /\ UNCHANGED <<timers, nextId>>

\* a pairing timeout wakes up: it runs once, whatever it finds
FireBotTimeout(gameID) ==
    /\ gameID \in timers
    /\ MutexFree
    /\ timers' = timers \ {gameID}
    /\ Enter("startBotTimeout", [gameID |-> gameID],
             startBotTimeout(Reg, gameID))
    /\ UNCHANGED nextId

\* the ticker of cleanupOldGames fires
Sweep ==
    /\ MutexFree
    /\ Enter("cleanupOldGames", [t |-> now], cleanupOldGames(Reg, now))
    /\ UNCHANGED <<timers, nextId>>

\* the deferred m.mutex.Unlock() of the operation f
Release(f) ==
    /\ f \in locked
    /\ locked' = locked \ {f}
    /\ games' = f.out.reg.games
    /\ waitingPlayer' = f.out.reg.waitingPlayer
    /\ leaderboard' = f.out.reg.leaderboard
    /\ playerWins' = f.out.reg.playerWins
    /\ moves' = IF f.op \in {"MakeMove", "MakeBotMove"} /\ f.out.move # NoMove
                THEN moves + 1 ELSE moves
    /\ UNCHANGED <<timers, nextId, now>>

Unlock(f) == Release(f) /\ UNCHANGED auxVars

Tick ==
    /\ now + ClockStep <= MaxTime
    /\ now' = now + ClockStep
    /\ UNCHANGED <<games, waitingPlayer, leaderboard, playerWins, locked,
                   timers, nextId, moves>>
    /\ UNCHANGED auxVars

Next ==
    \/ \E username \in Usernames : CallFindOrCreateGame(username)
    \/ \E username \in JoinNames, gameID \in GameIDs :
          CallJoinSpecificGame(username, gameID)
    \/ \E gameID \in MoveGameIDs, column \in Columns, username \in MoveNames :
          CallMakeMove(gameID, column, username)
    \/ \E gameID \in MoveGameIDs : CallMakeBotMove(gameID)
    \/ \E gameID \in GameIDs : FireBotTimeout(gameID)
    \/ Sweep
    \/ \E f \in locked : Unlock(f)
    \/ Tick

Spec == Init /\ [][Next]_vars

\* ------------------------------------------------------------------------
\* The read-only accessors of the Manager.  GetGame and GetLeaderboard read
\* between m.mutex.RLock() and the deferred RUnlock(); GetStats reads
\* len(m.games) without taking the lock.
\* ------------------------------------------------------------------------
\* m.mutex.RLock() returns only while no operation holds the write lock
RLockFree == locked = {}

Read(op, lock, value) ==
    /\ readers' = readers \cup {[op |-> op, lock |-> lock, value |-> value]}
    /\ UNCHANGED <<games, waitingPlayer, leaderboard, playerWins, locked,
                   timers, nextId, now, moves>>
    /\ UNCHANGED <<lockVars, connVars>>
    /\ UNCHANGED <<frame, synced, botTasks, connName>>

GetGame(gameID) ==
    /\ RLockFree
    /\ Read("GetGame", TRUE, IF gameID \in DOMAIN games THEN gameID ELSE 0)

GetLeaderboard ==
    /\ RLockFree
    /\ Read("GetLeaderboard", TRUE, leaderboard)

\* len(m.games), read while an operation may be writing the map: the count
\* the operation found or the count it leaves
GamesCounts ==
    {Cardinality(DOMAIN games)}
        \cup {Cardinality(DOMAIN f.out.reg.games) : f \in locked}

GetStats ==
    \E activeGames \in GamesCounts : Read("GetStats", FALSE, activeGames)

\* the accessor returns, after its RUnlock() if it holds the lock
ReadReturns(r) ==
    /\ r \in readers
    /\ readers' = readers \ {r}
    /\ UNCHANGED <<games, waitingPlayer, leaderboard, playerWins, locked,
                   timers, nextId, now, moves>>
    /\ UNCHANGED <<lockVars, connVars>>
    /\ UNCHANGED <<frame, synced, botTasks, connName>>

ReadNext ==
    \/ \E username \in JoinNames : CallFindOrCreateGame(username)
    \/ \E gameID \in GameIDs : FireBotTimeout(gameID)
    \/ \E f \in locked : Unlock(f)
    \/ \E gameID \in GameIDs : GetGame(gameID)
    \/ GetLeaderboard
    \/ GetStats
    \/ \E r \in readers : ReadReturns(r)

ReadSpec == Init /\ [][ReadNext]_vars

(***************************************************************************)
(* What an operation does between m.mutex.Lock() and its deferred Unlock,  *)
(* beside changing the Manager's fields: m.sendKafkaEvent, the db.Exec of  *)
(* saveGameResult and the m.onGameUpdate callback, which is               *)
(* Hub.onGameUpdate.  The server runs with both collaborators connected.   *)
(***************************************************************************)

\* the task that runs the operation f: the connection that called it, which
\* is the connection of the name it was called for unless the call names
\* another, or the goroutine named after the operation
TaskOf(f) ==
    IF f.op \in {"FindOrCreateGame", "JoinSpecificGame", "MakeMove"}
    THEN IF "conn" \in DOMAIN f.args THEN f.args.conn ELSE f.args.username
    ELSE <<f.op>>

HoldsRegistry(task) == \E f \in locked : TaskOf(f) = task

HoldsHub(task) == \E h \in hubMutex : h.owner = task

\* the calls the operation f makes while it holds m.mutex, in the order it
\* makes them
Calls(f) ==
    CASE f.op = "FindOrCreateGame" ->
            IF f.out.game # 0 /\ ~f.out.isWaiting
            THEN <<"kafka", "hub">> ELSE <<>>
      [] f.op = "JoinSpecificGame" ->
            IF f.out.err = "nil" /\ f.out.reg # Reg
            THEN <<"kafka", "hub">> ELSE <<>>
      [] f.op = "startBotTimeout" ->
            IF f.out.injected THEN <<"kafka", "hub">> ELSE <<>>
      [] f.op \in {"MakeMove", "MakeBotMove"} ->
            IF f.out.move = NoMove THEN <<>>
            ELSE IF f.out.reg.games[f.out.game].Status = "finished"
                 THEN <<"kafka", "db", "kafka">>
                 ELSE <<"kafka">>
      [] OTHER -> <<>>

\* Hub.onGameUpdate of the mutex holder has released h.mutex
HubCallDone(f) == \E i \in 1..callsDone : Calls(f)[i] = "hub"

\* the call the mutex holder is inside, "none" if it is inside none
CurrentCall(f) == IF inCall THEN Calls(f)[callsDone + 1] ELSE "none"

\* the mutex holder starts its next call: kafka.SendMessage and db.Exec wait
\* for the collaborator's answer, Hub.onGameUpdate starts with h.mutex.RLock()
BeginCall(f) ==
    /\ f \in locked
    /\ ~inCall
    /\ callsDone < Len(Calls(f))
    /\ inCall' = TRUE
    /\ IF Calls(f)[callsDone + 1] = "hub"
       THEN /\ \A h \in hubMutex : h.mode = "R"
            /\ hubMutex' = hubMutex \cup {[owner |-> TaskOf(f), mode |-> "R"]}
       ELSE UNCHANGED hubMutex
    /\ UNCHANGED <<games, waitingPlayer, leaderboard, playerWins, locked,
                   timers, nextId, now, moves>>
    /\ UNCHANGED <<readers, callsDone, toAppend, gameClients, connGame, connVars>>
    /\ UNCHANGED <<frame, synced, botTasks, connName>>

\* the call returns: the collaborator has answered, or Hub.onGameUpdate has
\* copied the game's connections and released h.mutex
EndCall(f) ==
    /\ f \in locked
    /\ inCall
    /\ inCall' = FALSE
    /\ callsDone' = callsDone + 1
    /\ hubMutex' = IF CurrentCall(f) = "hub"
                   THEN hubMutex \ {[owner |-> TaskOf(f), mode |-> "R"]}
                   ELSE hubMutex
    /\ UNCHANGED <<games, waitingPlayer, leaderboard, playerWins, locked,
                   timers, nextId, now, moves>>
    /\ UNCHANGED <<readers, toAppend, gameClients, connGame, connVars>>
    /\ UNCHANGED <<frame, synced, botTasks, connName>>

\* joinGame and joinSpecificGame put the connection into the game they were
\* handed
JoinedGame(f) ==
    IF f.op \in {"FindOrCreateGame", "JoinSpecificGame"} /\ f.out.game # 0
    THEN {<<TaskOf(f), f.out.game>>} ELSE {}

\* the operation returns once it has made its calls
Returned(f) ==
    /\ ~inCall
    /\ callsDone = Len(Calls(f))
    /\ Release(f)
    /\ callsDone' = 0
    /\ toAppend' = toAppend \cup JoinedGame(f)
    /\ connGame' = IF JoinedGame(f) = {} THEN connGame
                   ELSE [connGame EXCEPT ![TaskOf(f)] = f.out.game]
    /\ synced' = {}
    /\ UNCHANGED <<readers, inCall, hubMutex, gameClients>>

Return(f) == Returned(f) /\ UNCHANGED <<connVars, frame, botTasks, connName>>

\* c.hub.mutex.Lock() of joinGame and joinSpecificGame
AppendLock(username, gameID) ==
    /\ <<username, gameID>> \in toAppend
    /\ hubMutex = {}
    /\ hubMutex' = {[owner |-> username, mode |-> "W"]}
    /\ UNCHANGED <<games, waitingPlayer, leaderboard, playerWins, locked,
                   timers, nextId, now, moves>>
    /\ UNCHANGED <<readers, callsDone, inCall, toAppend, gameClients, connGame,
                   connVars>>
    /\ UNCHANGED <<frame, synced, botTasks, connName>>

\* the append to gameClients[gameID] and c.hub.mutex.Unlock()
Appended(username, gameID) ==
    /\ <<username, gameID>> \in toAppend
    /\ [owner |-> username, mode |-> "W"] \in hubMutex
    /\ hubMutex' = {}
    /\ toAppend' = toAppend \ {<<username, gameID>>}
    /\ gameClients' = IF gameID \in DOMAIN gameClients
                      THEN [gameClients EXCEPT ![gameID] = Append(@, username)]
                      ELSE (gameID :> <<username>>) @@ gameClients
    /\ UNCHANGED <<games, waitingPlayer, leaderboard, playerWins, locked,
                   timers, nextId, now, moves>>
    /\ synced' = IF \E f \in locked : HubCallDone(f)
                 THEN synced \cup {username} ELSE synced \ {username}
    /\ UNCHANGED <<readers, callsDone, inCall, connGame>>

AppendUnlock(username, gameID) ==
    Appended(username, gameID) /\ UNCHANGED <<connVars, frame, botTasks, connName>>

\* a connection handles one message at a time: it calls the Manager only
\* when its last handler has returned
ClientIdle(username) ==
    /\ ~HoldsHub(username)
    /\ ~HoldsRegistry(username)
    /\ username \notin panicking
    /\ frame[username] = NoFrame
    /\ \A gameID \in GameIDs :
          <<username, gameID>> \notin toAppend \cup toReply

\* c.gameID: the game the connection joined last, none if it joined none
GameOf(username) ==
    IF connGame[username] = 0 THEN {} ELSE {connGame[username]}

\* the connections of LockSpec join once
CanJoin(username) == ClientIdle(username) /\ GameOf(username) = {}

\* the column each connection plays in LockSpec
LockColumn(username) == IF username = Alice THEN 0 ELSE 1

LockNext ==
    \/ \E username \in JoinNames :
          CanJoin(username) /\ CallFindOrCreateGame(username)
    \/ \E username \in JoinNames, gameID \in GameIDs :
          CanJoin(username) /\ CallJoinSpecificGame(username, gameID)
    \/ \E username \in JoinNames : \E gameID \in GameOf(username) :
          /\ ClientIdle(username)
          /\ CallMakeMove(gameID, LockColumn(username), username)
    \/ \E gameID \in DOMAIN gameClients : CallMakeBotMove(gameID)
    \/ \E gameID \in GameIDs : FireBotTimeout(gameID)
    \/ \E f \in locked : BeginCall(f)
    \/ \E f \in locked : EndCall(f)
    \/ \E f \in locked : Return(f)
    \/ \E username \in JoinNames, gameID \in GameIDs :
          AppendLock(username, gameID)
    \/ \E username \in JoinNames, gameID \in GameIDs :
          AppendUnlock(username, gameID)

LockSpec == Init /\ [][LockNext]_vars

(***************************************************************************)
(* The Hub's connections: HandleWebSocket, the readPump and writePump of   *)
(* each connection, the sends of joinGame and Hub.onGameUpdate, and the    *)
(* unregister case of Hub.Run.  A connection is named by the name it       *)
(* joins with.                                                             *)
(***************************************************************************)

\* the bound on cap(c.send), which is 256 in the source
SendCap == 2

\* select { case client.send <- data: default: close(client.send) } for each
\* connection of the list in turn: a send on a closed channel and a close of
\* a closed channel panic, and the panic ends the loop
RECURSIVE Deliver(_, _, _, _)
Deliver(list, i, Q, msg) ==
    IF i > Len(list) \/ Q.panic THEN Q
    ELSE LET c == list[i]
         IN  Deliver(list, i + 1,
                IF Q.closed[c] THEN [Q EXCEPT !.panic = TRUE]
                ELSE IF Len(Q.buf[c]) < SendCap
                     THEN [Q EXCEPT !.buf[c] = Append(@, msg)]
                ELSE [Q EXCEPT !.closed[c] = TRUE],
                msg)

Queues == [buf |-> send, closed |-> sendClosed, panic |-> FALSE]

\* a Message as the peer gets it: its Type and, if its Data holds a Game, the
\* Status the Game has when json.Marshal reads it
Msg(type, status) == [type |-> type, status |-> status]

ErrorMsg == Msg("error", "-")

\* the handlers hold a *Game and read it outside m.mutex: they see the game
\* as the Manager's map has it, or as the operation that holds the mutex is
\* leaving it
GameViews(gameID) ==
    {games[gameID]}
        \cup {f.out.reg.games[gameID] :
                f \in {h \in locked : gameID \in DOMAIN h.out.reg.games}}

\* the game as a handler reads it right after it has taken h.mutex: what the
\* operation whose Hub.onGameUpdate released h.mutex before has written, if
\* there is one
ViewsAfterLock(gameID) ==
    LET written == {f.out.reg.games[gameID] :
                      f \in {h \in locked : /\ HubCallDone(h)
                                            /\ gameID \in DOMAIN h.out.reg.games}}
    IN  IF written # {} THEN written ELSE GameViews(gameID)

\* the game read as if no handler were ordered after the operation
ViewsFor_Unordered(c, gameID) == GameViews(gameID)

\* the game as the handler of the connection reads it
ViewsFor(c, gameID) ==
    IF c \in synced THEN ViewsAfterLock(gameID) ELSE GameViews(gameID)

\* the pieces on a board
Pieces(board) ==
    Cardinality({rc \in RowIdx \X ColIdx : board[rc[1]][rc[2]] # EMPTY})

\* the *Move an operation returns, 0 for nil
MoveOf(out) ==
    IF out.move = NoMove THEN 0 ELSE Pieces(out.reg.games[out.game].Board)

\* a move_made message: its move, and of the *Game in its Data the status
\* and the pieces the game has when json.Marshal reads it
MoveMsg(move, g) ==
    [type |-> "move_made", status |-> g.Status, move |-> move,
     pieces |-> Pieces(g.Board)]

\* messageType of joinGame and Hub.onGameUpdate
UpdateMsg(g) ==
    Msg(IF g.Status = "playing" THEN "game_started" ELSE "game_updated",
        g.Status)

\* the games whose list of connections holds the connection
ListedIn(c) ==
    {gameID \in DOMAIN gameClients :
        \E i \in DOMAIN gameClients[gameID] : gameClients[gameID][i] = c}

ClientsOf(gameID) ==
    IF gameID \in DOMAIN gameClients THEN gameClients[gameID] ELSE <<>>

IsClientTask(task) == task \in JoinNames

\* HandleWebSocket: the register case of Hub.Run, then the two pumps start
HandleWebSocket(c) ==
    /\ readPump[c] = "none"
    /\ hubMutex = {}
    /\ clients' = clients \cup {c}
    /\ readPump' = [readPump EXCEPT ![c] = "reading"]
    /\ UNCHANGED <<games, waitingPlayer, leaderboard, playerWins, locked,
                   timers, nextId, now, moves, readers, lockVars>>
    /\ UNCHANGED <<send, sendClosed, connClosed, toReply, panicking, crashed>>
    /\ UNCHANGED <<frame, synced, botTasks, connName>>

\* readPump has a message to hand to handleMessage
Reading(c) == readPump[c] = "reading" /\ ~connClosed[c]

\* Hub.onGameUpdate after its RLock: it copies the game's connections,
\* releases h.mutex and sends to each of them.  A panic unwinds to the
\* recover of handleMessage if a connection's handler called the Manager,
\* and ends the server if the pairing timeout did.
onGameUpdate(f) ==
    /\ f \in locked
    /\ inCall
    /\ CurrentCall(f) = "hub"
    /\ TaskOf(f) \notin panicking
    /\ LET gameID == IF f.op = "FindOrCreateGame" THEN f.out.game
                     ELSE f.args.gameID
           Q == Deliver(ClientsOf(gameID), 1, Queues,
                        UpdateMsg(f.out.reg.games[gameID]))
       IN  /\ hubMutex' = hubMutex \ {[owner |-> TaskOf(f), mode |-> "R"]}
           /\ send' = Q.buf
           /\ sendClosed' = Q.closed
           /\ inCall' = (inCall /\ Q.panic)
           /\ callsDone' = IF Q.panic THEN callsDone ELSE callsDone + 1
           /\ panicking' = IF Q.panic /\ IsClientTask(TaskOf(f))
                           THEN panicking \cup {TaskOf(f)} ELSE panicking
           /\ crashed' = (Q.panic /\ ~IsClientTask(TaskOf(f)))
    /\ UNCHANGED <<games, waitingPlayer, leaderboard, playerWins, locked,
                   timers, nextId, now, moves, readers>>
    /\ UNCHANGED <<toAppend, gameClients, connGame, clients, readPump,
                   connClosed, toReply>>
    /\ UNCHANGED <<frame, synced, botTasks, connName>>

\* joinGame after FindOrCreateGame has returned: the append under h.mutex
HubAppendUnlock(username, gameID) ==
    /\ Appended(username, gameID)
    /\ toReply' = toReply \cup {<<username, gameID>>}
    /\ UNCHANGED <<clients, send, sendClosed, readPump, connClosed,
                   panicking, crashed, frame, botTasks, connName>>

\* the rest of joinGame: c.sendMessage(game_joined), then broadcastToGame
joinGame(c, gameID) ==
    /\ <<c, gameID>> \in toReply
    /\ \A h \in hubMutex : h.mode = "R"
    /\ \E g \in ViewsFor(c, gameID) :
          LET joined == Deliver(<<c>>, 1, Queues, Msg("game_joined", g.Status))
              Q == Deliver(ClientsOf(gameID), 1, joined, UpdateMsg(g))
          IN  /\ send' = Q.buf
              /\ sendClosed' = Q.closed
              /\ panicking' = IF Q.panic THEN panicking \cup {c} ELSE panicking
    /\ toReply' = toReply \ {<<c, gameID>>}
    /\ UNCHANGED <<games, waitingPlayer, leaderboard, playerWins, locked,
                   timers, nextId, now, moves, readers, lockVars>>
    /\ UNCHANGED <<clients, readPump, connClosed, crashed>>
    /\ UNCHANGED <<frame, synced, botTasks, connName>>

\* the deferred recover of handleMessage: the Manager's deferred Unlock has
\* run on the way, and the handler answers with c.sendMessage(error), whose
\* own panic nothing recovers
Recover(c) ==
    /\ c \in panicking
    /\ IF HoldsRegistry(c)
       THEN /\ \E f \in locked : TaskOf(f) = c /\ Release(f)
            /\ callsDone' = 0
            /\ inCall' = FALSE
       ELSE UNCHANGED <<games, waitingPlayer, leaderboard, playerWins, locked,
                        timers, nextId, now, moves, callsDone, inCall>>
    /\ LET Q == Deliver(<<c>>, 1, Queues, ErrorMsg)
       IN  /\ send' = Q.buf
           /\ sendClosed' = Q.closed
           /\ crashed' = Q.panic
    /\ panicking' = panicking \ {c}
    /\ frame' = [frame EXCEPT ![c] = NoFrame]
    /\ synced' = IF HoldsRegistry(c) THEN {} ELSE synced
    /\ UNCHANGED <<botTasks, connName>>
    /\ UNCHANGED <<readers, hubMutex, toAppend, gameClients, connGame, clients,
                   readPump, connClosed, toReply>>

\* writePump writes what is queued
writePump(c) ==
    /\ readPump[c] # "none"
    /\ ~connClosed[c]
    /\ send[c] # <<>>
    /\ send' = [send EXCEPT ![c] = <<>>]
    /\ UNCHANGED <<games, waitingPlayer, leaderboard, playerWins, locked,
                   timers, nextId, now, moves, readers, lockVars>>
    /\ UNCHANGED <<clients, sendClosed, readPump, connClosed, toReply,
                   panicking, crashed>>
    /\ UNCHANGED <<frame, synced, botTasks, connName>>

\* writePump finds c.send closed and empty: it writes the close message and
\* its deferred c.conn.Close() runs
writePumpCloses(c) ==
    /\ readPump[c] # "none"
    /\ ~connClosed[c]
    /\ sendClosed[c]
    /\ send[c] = <<>>
    /\ connClosed' = [connClosed EXCEPT ![c] = TRUE]
    /\ UNCHANGED <<games, waitingPlayer, leaderboard, playerWins, locked,
                   timers, nextId, now, moves, readers, lockVars>>
    /\ UNCHANGED <<clients, send, sendClosed, readPump, toReply,
                   panicking, crashed>>
    /\ UNCHANGED <<frame, synced, botTasks, connName>>

\* the peer goes away
PeerLeaves(c) ==
    /\ Reading(c)
    /\ connClosed' = [connClosed EXCEPT ![c] = TRUE]
    /\ UNCHANGED <<games, waitingPlayer, leaderboard, playerWins, locked,
                   timers, nextId, now, moves, readers, lockVars>>
    /\ UNCHANGED <<clients, send, sendClosed, readPump, toReply,
                   panicking, crashed>>
    /\ UNCHANGED <<frame, synced, botTasks, connName>>

\* c.conn.ReadMessage() fails and readPump leaves its loop: its deferred
\* function sends the connection to h.unregister
readPumpEnds(c) ==
    /\ readPump[c] = "reading"
    /\ connClosed[c]
    /\ ClientIdle(c)
    /\ readPump' = [readPump EXCEPT ![c] = "unregistering"]
    /\ UNCHANGED <<games, waitingPlayer, leaderboard, playerWins, locked,
                   timers, nextId, now, moves, readers, lockVars>>
    /\ UNCHANGED <<clients, send, sendClosed, connClosed, toReply,
                   panicking, crashed>>
    /\ UNCHANGED <<frame, synced, botTasks, connName>>

\* removeClientFromGame: the first place the connection has in the list of
\* its game
RemoveFirst(list, c) ==
    LET at == {i \in DOMAIN list : list[i] = c}
    IN  IF at = {} THEN list
        ELSE LET i == CHOOSE k \in at : \A j \in at : k <= j
             IN  SubSeq(list, 1, i - 1) \o SubSeq(list, i + 1, Len(list))

removeClientFromGame(c) ==
    [gameID \in DOMAIN gameClients |->
        IF gameID \in GameOf(c) THEN RemoveFirst(gameClients[gameID], c)
        ELSE gameClients[gameID]]

\* the unregister case of Hub.Run: delete(h.clients, client), then
\* close(client.send), which panics if the channel is closed already, then
\* removeClientFromGame
HubUnregister(c) ==
    /\ readPump[c] = "unregistering"
    /\ hubMutex = {}
    /\ readPump' = [readPump EXCEPT ![c] = "done"]
    /\ IF c \in clients
       THEN /\ clients' = clients \ {c}
            /\ crashed' = sendClosed[c]
            /\ sendClosed' = [sendClosed EXCEPT ![c] = TRUE]
            /\ gameClients' = IF sendClosed[c] THEN gameClients
                              ELSE removeClientFromGame(c)
       ELSE UNCHANGED <<clients, crashed, sendClosed, gameClients>>
    /\ UNCHANGED <<games, waitingPlayer, leaderboard, playerWins, locked,
                   timers, nextId, now, moves, readers>>
    /\ UNCHANGED <<callsDone, inCall, hubMutex, toAppend, connGame, send,
                   connClosed, toReply, panicking>>
    /\ UNCHANGED <<frame, synced, botTasks, connName>>

\* a panic that reaches the top of a goroutine ends the process
Running == ~crashed

HubNext ==
    \/ \E c \in JoinNames : Running /\ HandleWebSocket(c)
    \/ \E c \in JoinNames :
          Running /\ Reading(c) /\ CanJoin(c) /\ CallFindOrCreateGame(c)
    \/ \E gameID \in GameIDs : Running /\ FireBotTimeout(gameID)
    \/ \E f \in locked : Running /\ BeginCall(f)
    \/ \E f \in locked : Running /\ CurrentCall(f) # "hub" /\ EndCall(f)
    \/ \E f \in locked : Running /\ onGameUpdate(f)
    \/ \E f \in locked : Running /\ Return(f)
    \/ \E c \in JoinNames, gameID \in GameIDs :
          Running /\ AppendLock(c, gameID)
    \/ \E c \in JoinNames, gameID \in GameIDs :
          Running /\ HubAppendUnlock(c, gameID)
    \/ \E c \in JoinNames, gameID \in GameIDs : Running /\ joinGame(c, gameID)
    \/ \E c \in JoinNames : Running /\ Recover(c)
    \/ \E c \in JoinNames : Running /\ writePump(c)
    \/ \E c \in JoinNames : Running /\ writePumpCloses(c)
    \/ \E c \in JoinNames : Running /\ PeerLeaves(c)
    \/ \E c \in JoinNames : Running /\ readPumpEnds(c)
    \/ \E c \in JoinNames : Running /\ HubUnregister(c)

HubSpec == Init /\ [][HubNext]_vars

\* the connections also join a game by its id, with an id and a name that
\* JoinSpecificGame accepts
StartNext ==
    \/ HubNext
    \/ \E c \in JoinNames, gameID \in GameIDs :
          /\ Running /\ Reading(c) /\ CanJoin(c)
          /\ JoinSpecificGame(Reg, c, gameID).err = "nil"
          /\ CallJoinSpecificGame(c, gameID)

\* the goroutines of the Manager's operations and of the handlers keep
\* running: a step of theirs that stays possible is taken
FairHubSpec ==
    /\ Init /\ [][StartNext]_vars
    /\ WF_vars(\E f \in locked : Running /\ BeginCall(f))
    /\ WF_vars(\E f \in locked : Running /\ CurrentCall(f) # "hub" /\ EndCall(f))
    /\ WF_vars(\E f \in locked : Running /\ onGameUpdate(f))
    /\ WF_vars(\E f \in locked : Running /\ Return(f))
    /\ WF_vars(\E c \in JoinNames, gameID \in GameIDs :
                  Running /\ AppendLock(c, gameID))
    /\ WF_vars(\E c \in JoinNames, gameID \in GameIDs :
                  Running /\ HubAppendUnlock(c, gameID))
    /\ WF_vars(\E c \in JoinNames, gameID \in GameIDs :
                  Running /\ joinGame(c, gameID))
    /\ WF_vars(\E c \in JoinNames : Running /\ Recover(c))

(***************************************************************************)
(* One connection that sends join_game more than once, with the pairing    *)
(* timeout as its opponent.                                                *)
(***************************************************************************)

\* the join_game frames the connection sends
MaxJoins == 2

\* the places the connection has in the lists of all games
Occurrences(c) ==
    UNION {{<<gameID, i>> : i \in {j \in DOMAIN gameClients[gameID] :
                                     gameClients[gameID][j] = c}} :
             gameID \in DOMAIN gameClients}

\* handleMessage runs joinGame for every join_game frame, whether or not the
\* connection has joined before
MayJoin(c) == ClientIdle(c) /\ Cardinality(Occurrences(c)) < MaxJoins

\* the connection of RejoinSpec
Rejoiners == {Alice}

RejoinNext ==
    \/ \E c \in Rejoiners : Running /\ HandleWebSocket(c)
    \/ \E c \in Rejoiners :
          Running /\ Reading(c) /\ MayJoin(c) /\ CallFindOrCreateGame(c)
    \/ \E gameID \in GameIDs : Running /\ FireBotTimeout(gameID)
    \/ \E f \in locked : Running /\ BeginCall(f)
    \/ \E f \in locked : Running /\ CurrentCall(f) # "hub" /\ EndCall(f)
    \/ \E f \in locked : Running /\ onGameUpdate(f)
    \/ \E f \in locked : Running /\ Return(f)
    \/ \E c \in Rejoiners, gameID \in GameIDs :
          Running /\ AppendLock(c, gameID)
    \/ \E c \in Rejoiners, gameID \in GameIDs :
          Running /\ HubAppendUnlock(c, gameID)
    \/ \E c \in Rejoiners, gameID \in GameIDs : Running /\ joinGame(c, gameID)
    \/ \E c \in Rejoiners : Running /\ Recover(c)
    \/ \E c \in Rejoiners : Running /\ writePump(c)
    \/ \E c \in Rejoiners : Running /\ writePumpCloses(c)
    \/ \E c \in Rejoiners : Running /\ PeerLeaves(c)
    \/ \E c \in Rejoiners : Running /\ readPumpEnds(c)
    \/ \E c \in Rejoiners : Running /\ HubUnregister(c)

RejoinSpec == Init /\ [][RejoinNext]_vars

(***************************************************************************)
(* The frames a connection sends beside join_game: readPump decodes the    *)
(* envelope and handleMessage dispatches on its type.  The peers of        *)
(* FrameSpec stay connected, reconnect under their own name, and the       *)
(* pairing timeouts do not fire.                                           *)
(***************************************************************************)

FrameOf(type, gameID, column) ==
    [type |-> type, gameID |-> gameID, column |-> column, err |-> "nil",
     move |-> 0]

\* the columns of the make_move frames: a column of the board and one that
\* handleMessage refuses
FrameColumns == {0, COLS}

\* the pieces the connections of FrameSpec place
MaxFrameMoves == 2

Frames ==
    {FrameOf("malformed", 0, 0), FrameOf("unknown", 0, 0)}
        \cup {FrameOf("make_move", 0, column) : column \in FrameColumns}
        \cup {FrameOf("reconnect", gameID, 0) : gameID \in GameIDs}

\* c.conn.ReadMessage() returns the next frame of the peer
ReadMessage(c, fr) ==
    /\ Reading(c)
    /\ ClientIdle(c)
    /\ fr.type = "reconnect" => Cardinality(Occurrences(c)) < MaxJoins
    /\ fr.type = "make_move" => moves < MaxFrameMoves
    /\ frame' = [frame EXCEPT ![c] = fr]
    /\ UNCHANGED <<synced, botTasks, connName>>
    /\ UNCHANGED <<games, waitingPlayer, leaderboard, playerWins, locked,
                   timers, nextId, now, moves, readers, lockVars, connVars>>

\* json.Unmarshal fails: readPump logs the error and reads on
readPumpSkips(c) ==
    /\ frame[c].type = "malformed"
    /\ frame' = [frame EXCEPT ![c] = NoFrame]
    /\ UNCHANGED <<games, waitingPlayer, leaderboard, playerWins, locked,
                   timers, nextId, now, moves, readers, lockVars, connVars>>
    /\ UNCHANGED <<synced, botTasks, connName>>

\* the handler has sent its messages and returns, or unwinds the panic of a
\* send
Answered(c, Q) ==
    /\ send' = Q.buf
    /\ sendClosed' = Q.closed
    /\ panicking' = IF Q.panic THEN panicking \cup {c} ELSE panicking
    /\ frame' = [frame EXCEPT ![c] = IF Q.panic THEN @ ELSE NoFrame]
    /\ UNCHANGED <<clients, readPump, connClosed, toReply, crashed>>

\* the default case of handleMessage
handleUnknown(c) ==
    /\ frame[c].type = "unknown"
    /\ c \notin panicking
    /\ Answered(c, Deliver(<<c>>, 1, Queues, ErrorMsg))
    /\ UNCHANGED <<games, waitingPlayer, leaderboard, playerWins, locked,
                   timers, nextId, now, moves, readers, lockVars>>
    /\ UNCHANGED <<synced, botTasks, connName>>

ValidColumn(column) == column >= 0 /\ column < COLS

\* case make_move of handleMessage with a column outside the board
makeMoveInvalid(c) ==
    /\ frame[c].type = "make_move"
    /\ c \notin panicking
    /\ ~ValidColumn(frame[c].column)
    /\ Answered(c, Deliver(<<c>>, 1, Queues, ErrorMsg))
    /\ UNCHANGED <<games, waitingPlayer, leaderboard, playerWins, locked,
                   timers, nextId, now, moves, readers, lockVars>>
    /\ UNCHANGED <<synced, botTasks, connName>>

\* makeMove of a connection whose c.gameID is "": it returns at once
makeMoveNoGame(c) ==
    /\ frame[c].type = "make_move"
    /\ ValidColumn(frame[c].column)
    /\ GameOf(c) = {}
    /\ frame' = [frame EXCEPT ![c] = NoFrame]
    /\ UNCHANGED <<games, waitingPlayer, leaderboard, playerWins, locked,
                   timers, nextId, now, moves, readers, lockVars, connVars>>
    /\ UNCHANGED <<synced, botTasks, connName>>

\* makeMove calls Manager.MakeMove(c.gameID, column, c.username)
makeMoveCall(c) ==
    /\ frame[c].type = "make_move"
    /\ ValidColumn(frame[c].column)
    /\ GameOf(c) # {}
    /\ ~HoldsRegistry(c)
    /\ CallMakeMove(connGame[c], frame[c].column, c)

\* Manager.MakeMove returns its error to makeMove
makeMoveReturn(f) ==
    /\ f.op = "MakeMove"
    /\ Returned(f)
    /\ frame' = [frame EXCEPT ![TaskOf(f)] =
                    [@ EXCEPT !.type = "moved", !.err = f.out.err,
                              !.move = MoveOf(f.out)]]
    /\ UNCHANGED <<connVars, botTasks, connName>>

\* the test of makeMove after its broadcast, on the game as it reads it
BotIsNext(g) == g.IsBot /\ g.CurrentTurn = PLAYER2 /\ g.Status = "playing"

\* the rest of makeMove: the error to the connection, or move_made to the
\* connections of the game and, if the scripted opponent is next, the
\* goroutine that will call MakeBotMove
makeMoveReply(c) ==
    /\ frame[c].type = "moved"
    /\ c \notin panicking
    /\ \A h \in hubMutex : h.mode = "R"
    /\ IF frame[c].err # "nil"
       THEN /\ Answered(c, Deliver(<<c>>, 1, Queues, ErrorMsg))
            /\ UNCHANGED botTasks
       ELSE \E g \in GameViews(connGame[c]), gameObj \in GameViews(connGame[c]) :
               LET Q == Deliver(ClientsOf(connGame[c]), 1, Queues,
                                MoveMsg(frame[c].move, g))
               IN  /\ Answered(c, Q)
                   /\ botTasks' = IF ~Q.panic /\ BotIsNext(gameObj)
                                  THEN [botTasks EXCEPT ![c].asleep = @ + 1]
                                  ELSE botTasks
    /\ UNCHANGED <<games, waitingPlayer, leaderboard, playerWins, locked,
                   timers, nextId, now, moves, readers, lockVars>>
    /\ UNCHANGED <<synced, connName>>

\* the two error messages of reconnectToGame, with their text
GameNotFound == Msg("error", "Game not found")

NotAuthorized == Msg("error", "Not authorized for this game")

\* the test of reconnectToGame with the name compared to slot A only
Authorized_SlotAOnly(g, username) == g.Player1.Username = username

\* the name is the name of one of the game's slots
Authorized(g, username) ==
    \/ g.Player1.Username = username
    \/ g.Player2 # Nil /\ g.Player2[1].Username = username

\* reconnectToGame(gameID, username) up to its c.hub.mutex.Lock(): GetGame,
\* then the check of the name
reconnectWith(c, username) ==
    /\ frame[c].type = "reconnect"
    /\ c \notin panicking
    /\ RLockFree
    /\ LET gameID == frame[c].gameID
       IN  IF gameID \in DOMAIN games /\ Authorized(games[gameID], username)
           THEN /\ connGame' = [connGame EXCEPT ![c] = gameID]
                /\ toAppend' = toAppend \cup {<<c, gameID>>}
                /\ frame' = [frame EXCEPT ![c].type = "reconnected"]
                /\ UNCHANGED <<callsDone, inCall, hubMutex, gameClients,
                               connVars>>
           ELSE /\ Answered(c, Deliver(<<c>>, 1, Queues,
                                        IF gameID \in DOMAIN games
                                        THEN NotAuthorized ELSE GameNotFound))
                /\ UNCHANGED lockVars
    /\ UNCHANGED <<games, waitingPlayer, leaderboard, playerWins, locked,
                   timers, nextId, now, moves, readers>>
    /\ UNCHANGED <<synced, botTasks>>

\* the reconnect frame carries the name the connection is called by
reconnectToGame(c) == reconnectWith(c, c) /\ UNCHANGED connName

\* the rest of reconnectToGame: the append under c.hub.mutex, then
\* c.sendMessage(game_reconnected)
reconnectAppended(c, gameID) ==
    /\ frame[c].type = "reconnected"
    /\ Appended(c, gameID)
    /\ \E g \in ViewsAfterLock(gameID) :
          Answered(c, Deliver(<<c>>, 1, Queues,
                              Msg("game_reconnected", g.Status)))
    /\ UNCHANGED <<botTasks, connName>>

\* the connections that send other frames than join_game
Framers == {Alice}

FrameNext ==
    \/ \E c \in JoinNames : Running /\ HandleWebSocket(c)
    \/ \E c \in JoinNames :
          Running /\ Reading(c) /\ CanJoin(c) /\ CallFindOrCreateGame(c)
    \/ \E f \in locked : Running /\ BeginCall(f)
    \/ \E f \in locked : Running /\ CurrentCall(f) # "hub" /\ EndCall(f)
    \/ \E f \in locked : Running /\ onGameUpdate(f)
    \/ \E f \in locked : Running /\ f.op # "MakeMove" /\ Return(f)
    \/ \E f \in locked : Running /\ makeMoveReturn(f)
    \/ \E c \in JoinNames, gameID \in GameIDs :
          Running /\ AppendLock(c, gameID)
    \/ \E c \in JoinNames, gameID \in GameIDs :
          Running /\ frame[c] = NoFrame /\ HubAppendUnlock(c, gameID)
    \/ \E c \in JoinNames, gameID \in GameIDs : Running /\ joinGame(c, gameID)
    \/ \E c \in JoinNames : Running /\ Recover(c)
    \/ \E c \in JoinNames : Running /\ writePump(c)
    \/ \E c \in JoinNames : Running /\ writePumpCloses(c)
    \/ \E c \in JoinNames : Running /\ readPumpEnds(c)
    \/ \E c \in JoinNames : Running /\ HubUnregister(c)
    \/ \E c \in Framers, fr \in Frames : Running /\ ReadMessage(c, fr)
    \/ \E c \in Framers : Running /\ readPumpSkips(c)
    \/ \E c \in Framers : Running /\ handleUnknown(c)
    \/ \E c \in Framers : Running /\ makeMoveInvalid(c)
    \/ \E c \in Framers : Running /\ makeMoveNoGame(c)
    \/ \E c \in Framers : Running /\ makeMoveCall(c)
    \/ \E c \in Framers : Running /\ makeMoveReply(c)
    \/ \E c \in Framers : Running /\ reconnectToGame(c)
    \/ \E c \in Framers, gameID \in GameIDs :
          Running /\ reconnectAppended(c, gameID)

FrameSpec == Init /\ [][FrameNext]_vars

(***************************************************************************)
(* Two connections join, are paired with each other and send make_move     *)
(* frames: each handler calls MakeMove and then, with m.mutex released,    *)
(* broadcasts the move and the *Game to the connections of the game.       *)
(***************************************************************************)

\* the connections that send make_move frames
Movers == {Alice, Bob}

\* the make_move frames of the connection
ScriptedFrames == {FrameOf("make_move", 0, 0)}

MovesNext ==
    \/ \E c \in Movers : Running /\ HandleWebSocket(c)
    \/ \E c \in Movers :
          Running /\ Reading(c) /\ CanJoin(c) /\ CallFindOrCreateGame(c)
    \/ \E f \in locked : Running /\ BeginCall(f)
    \/ \E f \in locked : Running /\ CurrentCall(f) # "hub" /\ EndCall(f)
    \/ \E f \in locked : Running /\ onGameUpdate(f)
    \/ \E f \in locked : Running /\ f.op # "MakeMove" /\ Return(f)
    \/ \E f \in locked : Running /\ makeMoveReturn(f)
    \/ \E c \in Movers, gameID \in GameIDs : Running /\ AppendLock(c, gameID)
    \/ \E c \in Movers, gameID \in GameIDs :
          Running /\ frame[c] = NoFrame /\ HubAppendUnlock(c, gameID)
    \/ \E c \in Movers, gameID \in GameIDs : Running /\ joinGame(c, gameID)
    \/ \E c \in Movers : Running /\ Recover(c)
    \/ \E c \in Movers : Running /\ writePump(c)
    \/ \E c \in Movers, fr \in ScriptedFrames : Running /\ ReadMessage(c, fr)
    \/ \E c \in Movers : Running /\ makeMoveNoGame(c)
    \/ \E c \in Movers : Running /\ makeMoveCall(c)
    \/ \E c \in Movers : Running /\ makeMoveReply(c)

MovesSpec == Init /\ [][MovesNext]_vars

(***************************************************************************)
(* The goroutine makeMove starts after a move that leaves the scripted     *)
(* opponent next: it sleeps 500 ms, calls MakeBotMove(c.gameID) and         *)
(* broadcasts the move it gets back to the connections of c.gameID.  It    *)
(* reads c.gameID when it runs.  One connection plays: it joins, is paired *)
(* by the timeout, moves, and may join again.                              *)
(***************************************************************************)

\* the goroutine wakes up and calls MakeBotMove with the game the connection
\* has now
botMoveCall(c) ==
    /\ botTasks[c].asleep > 0
    /\ CallMakeBotMove(connGame[c])

\* MakeBotMove returns to the goroutine: it ends if it got an error or no
\* move back
botMoveReturn(f, c) ==
    /\ f.op = "MakeBotMove"
    /\ botTasks[c].asleep > 0
    /\ connGame[c] = f.args.gameID
    /\ Returned(f)
    /\ botTasks' = [botTasks EXCEPT ![c] =
                      [asleep |-> @.asleep - 1,
                       moved  |-> IF f.out.move # NoMove
                                  THEN Append(@.moved, [game |-> f.args.gameID,
                                                        move |-> MoveOf(f.out)])
                                  ELSE @.moved]]
    /\ UNCHANGED <<connVars, frame, connName>>

\* c.broadcastToGame(c.gameID, move_made) of the goroutine: nothing recovers
\* a panic of its sends
botMoveBroadcast(c, i) ==
    /\ i \in DOMAIN botTasks[c].moved
    /\ \A h \in hubMutex : h.mode = "R"
    /\ \E g \in GameViews(botTasks[c].moved[i].game) :
          LET Q == Deliver(ClientsOf(connGame[c]), 1, Queues,
                           MoveMsg(botTasks[c].moved[i].move, g))
          IN  /\ send' = Q.buf
              /\ sendClosed' = Q.closed
              /\ crashed' = Q.panic
    /\ botTasks' = [botTasks EXCEPT ![c].moved =
                      SubSeq(@, 1, i - 1) \o SubSeq(@, i + 1, Len(@))]
    /\ UNCHANGED <<games, waitingPlayer, leaderboard, playerWins, locked,
                   timers, nextId, now, moves, readers, lockVars>>
    /\ UNCHANGED <<clients, readPump, connClosed, toReply, panicking>>
    /\ UNCHANGED <<frame, synced, connName>>

\* botMoveCall(c) can be taken: MakeBotMove has an outcome for every game id
CanCallBot(c) == botTasks[c].asleep > 0 /\ MutexFree

ScriptedNext ==
    \/ \E c \in Rejoiners : Running /\ HandleWebSocket(c)
    \/ \E c \in Rejoiners :
          Running /\ Reading(c) /\ MayJoin(c) /\ CallFindOrCreateGame(c)
    \/ \E gameID \in GameIDs : Running /\ FireBotTimeout(gameID)
    \/ \E f \in locked : Running /\ BeginCall(f)
    \/ \E f \in locked : Running /\ CurrentCall(f) # "hub" /\ EndCall(f)
    \/ \E f \in locked : Running /\ onGameUpdate(f)
    \/ \E f \in locked :
          Running /\ f.op \notin {"MakeMove", "MakeBotMove"} /\ Return(f)
    \/ \E f \in locked : Running /\ makeMoveReturn(f)
    \/ \E c \in Rejoiners, gameID \in GameIDs :
          Running /\ AppendLock(c, gameID)
    \/ \E c \in Rejoiners, gameID \in GameIDs :
          Running /\ HubAppendUnlock(c, gameID)
    \/ \E c \in Rejoiners, gameID \in GameIDs : Running /\ joinGame(c, gameID)
    \/ \E c \in Rejoiners : Running /\ Recover(c)
    \/ \E c \in Rejoiners : Running /\ writePump(c)
    \/ \E c \in Rejoiners, fr \in ScriptedFrames : Running /\ ReadMessage(c, fr)
    \/ \E c \in Rejoiners : Running /\ makeMoveNoGame(c)
    \/ \E c \in Rejoiners : Running /\ makeMoveCall(c)
    \/ \E c \in Rejoiners : Running /\ makeMoveReply(c)
    \/ \E c \in Rejoiners : Running /\ botMoveCall(c)
    \/ \E f \in locked, c \in Rejoiners : Running /\ botMoveReturn(f, c)
    \/ \E c \in Rejoiners, i \in 1..MaxPieces :
          Running /\ botMoveBroadcast(c, i)

ScriptedSpec == Init /\ [][ScriptedNext]_vars

\* the goroutines of the operations, of the handlers, of the pairing timeout
\* and of the scripted move keep running: a step of theirs that stays
\* possible is taken, and sync.Mutex hands m.mutex to a goroutine that
\* keeps waiting for it (starvation mode).  The strong fairness of
\* botMoveCall is written out with the condition under which the step is
\* possible.
FairScriptedSpec ==
    /\ ScriptedSpec
    /\ SF_vars(\E gameID \in GameIDs : Running /\ FireBotTimeout(gameID))
    /\ WF_vars(\E f \in locked : Running /\ BeginCall(f))
    /\ WF_vars(\E f \in locked : Running /\ CurrentCall(f) # "hub" /\ EndCall(f))
    /\ WF_vars(\E f \in locked : Running /\ onGameUpdate(f))
    /\ WF_vars(\E f \in locked :
                  Running /\ f.op \notin {"MakeMove", "MakeBotMove"} /\ Return(f))
    /\ WF_vars(\E f \in locked : Running /\ makeMoveReturn(f))
    /\ WF_vars(\E c \in Rejoiners, gameID \in GameIDs :
                  Running /\ AppendLock(c, gameID))
    /\ WF_vars(\E c \in Rejoiners, gameID \in GameIDs :
                  Running /\ HubAppendUnlock(c, gameID))
    /\ WF_vars(\E c \in Rejoiners, gameID \in GameIDs :
                  Running /\ joinGame(c, gameID))
    /\ WF_vars(\E c \in Rejoiners : Running /\ Recover(c))
    /\ SF_vars(\E c \in Rejoiners : Running /\ makeMoveCall(c))
    /\ WF_vars(\E c \in Rejoiners : Running /\ makeMoveReply(c))
    /\ \A c \in Rejoiners :
          \/ <>[](~(Running /\ CanCallBot(c)))
          \/ []<><<Running /\ botMoveCall(c)>>_vars
    /\ WF_vars(\E f \in locked, c \in Rejoiners : Running /\ botMoveReturn(f, c))
    /\ WF_vars(\E c \in Rejoiners, i \in 1..MaxPieces :
                  Running /\ botMoveBroadcast(c, i))

\* ------------------------------------------------------------------------
\* The name of a connection.  handleMessage sets c.username to the trimmed
\* name of every join_game and reconnect frame before it calls joinGame,
\* joinSpecificGame or reconnectToGame, and makeMove calls MakeMove with
\* c.username.  One connection sends frames that carry a name of their own.
\* c.username is read and written by the goroutine of readPump only, so its
\* assignment is taken together with the next step of the handler.
\* ------------------------------------------------------------------------
\* the names the join_game frames without a game id carry
JoinFrameNames == {Alice, LongName}

\* the names the join_game frames with a game id and the reconnect frames
\* carry
FrameNames == {Alice, BotName}

\* a frame with a name
NamedFrame(type, gameID, username) ==
    [type |-> type, gameID |-> gameID, column |-> 0, err |-> "nil",
     move |-> 0, username |-> username]

\* the make_move and reconnect frames of the connection
NameFrames ==
    {FrameOf("make_move", 0, 0)}
        \cup {NamedFrame("reconnect", gameID, username) :
                 gameID \in GameIDs, username \in FrameNames}

\* the operation op, called by the connection c for the name it has taken
EnterAs(c, username, op, args, out) ==
    /\ locked' = locked \cup {[op |-> op, args |-> args, out |-> out]}
    /\ connName' = [connName EXCEPT ![c] = username]
    /\ UNCHANGED <<games, waitingPlayer, leaderboard, playerWins, now, moves>>
    /\ UNCHANGED <<readers, lockVars, connVars, frame, synced, botTasks>>

\* case join_game of handleMessage without a game id: c.username, then
\* joinGame(c.username), which calls FindOrCreateGame
joinGameAs(c, username) ==
    /\ Reading(c)
    /\ MayJoin(c)
    /\ MutexFree
    /\ LET name == TrimSpace(username)
       IN  \E out \in FindOrCreateGame(Reg, name, nextId, now) :
              /\ out.created => nextId <= MaxGames
              /\ nextId' = IF out.created THEN nextId + 1 ELSE nextId
              /\ timers' = IF out.created THEN timers \cup {out.game}
                                          ELSE timers
              /\ EnterAs(c, name, "FindOrCreateGame",
                         [username |-> name, conn |-> c], out)

\* case join_game of handleMessage with a game id: c.username, then
\* joinSpecificGame(c.username, gameID), which calls JoinSpecificGame
joinSpecificGameAs(c, username, gameID) ==
    /\ Reading(c)
    /\ MayJoin(c)
    /\ MutexFree
    /\ LET name == TrimSpace(username)
       IN  EnterAs(c, name, "JoinSpecificGame",
                   [username |-> name, gameID |-> gameID, conn |-> c],
                   JoinSpecificGame(Reg, name, gameID))
    /\ UNCHANGED <<timers, nextId>>

\* JoinSpecificGame returns an error to joinSpecificGame, which sends it to
\* the connection
joinSpecificGameFails(f) ==
    /\ f.op = "JoinSpecificGame"
    /\ f.out.err # "nil"
    /\ Returned(f)
    /\ LET Q == Deliver(<<TaskOf(f)>>, 1, Queues, ErrorMsg)
       IN  /\ send' = Q.buf
           /\ sendClosed' = Q.closed
           /\ panicking' = IF Q.panic THEN panicking \cup {TaskOf(f)}
                                      ELSE panicking
    /\ UNCHANGED <<clients, readPump, connClosed, toReply, crashed>>
    /\ UNCHANGED <<frame, botTasks, connName>>

\* case reconnect of handleMessage: c.username, then
\* reconnectToGame(gameID, c.username)
reconnectToGameAs(c) ==
    /\ frame[c].type = "reconnect"
    /\ LET name == TrimSpace(frame[c].username)
       IN  /\ reconnectWith(c, name)
           /\ connName' = [connName EXCEPT ![c] = name]

\* makeMove calls Manager.MakeMove(c.gameID, column, c.username)
makeMoveCallAs(c) ==
    /\ frame[c].type = "make_move"
    /\ ValidColumn(frame[c].column)
    /\ GameOf(c) # {}
    /\ ~HoldsRegistry(c)
    /\ MutexFree
    /\ LET out == Manager_MakeMove(Reg, connGame[c], frame[c].column,
                                   connName[c], now)
       IN  /\ out.err = "nil" => moves < MaxPieces
           /\ Enter("MakeMove", [gameID |-> connGame[c],
                                 column |-> frame[c].column,
                                 username |-> connName[c], conn |-> c], out)
    /\ UNCHANGED <<timers, nextId>>

NameNext ==
    \/ \E c \in Rejoiners : Running /\ HandleWebSocket(c)
    \/ \E c \in Rejoiners, username \in JoinFrameNames :
          Running /\ joinGameAs(c, username)
    \/ \E c \in Rejoiners, username \in FrameNames, gameID \in GameIDs :
          Running /\ joinSpecificGameAs(c, username, gameID)
    \/ \E gameID \in GameIDs : Running /\ FireBotTimeout(gameID)
    \/ \E f \in locked : Running /\ BeginCall(f)
    \/ \E f \in locked : Running /\ CurrentCall(f) # "hub" /\ EndCall(f)
    \/ \E f \in locked : Running /\ onGameUpdate(f)
    \/ \E f \in locked :
          /\ Running
          /\ f.op \notin {"MakeMove", "MakeBotMove"}
          /\ f.op = "JoinSpecificGame" => f.out.err = "nil"
          /\ Return(f)
    \/ \E f \in locked : Running /\ joinSpecificGameFails(f)
    \/ \E f \in locked : Running /\ makeMoveReturn(f)
    \/ \E c \in Rejoiners, gameID \in GameIDs :
          Running /\ AppendLock(c, gameID)
    \/ \E c \in Rejoiners, gameID \in GameIDs :
          Running /\ frame[c] = NoFrame /\ HubAppendUnlock(c, gameID)
    \/ \E c \in Rejoiners, gameID \in GameIDs : Running /\ joinGame(c, gameID)
    \/ \E c \in Rejoiners : Running /\ Recover(c)
    \/ \E c \in Rejoiners : Running /\ writePump(c)
    \/ \E c \in Rejoiners, fr \in NameFrames : Running /\ ReadMessage(c, fr)
    \/ \E c \in Rejoiners : Running /\ makeMoveNoGame(c)
    \/ \E c \in Rejoiners : Running /\ makeMoveCallAs(c)
    \/ \E c \in Rejoiners : Running /\ makeMoveReply(c)
    \/ \E c \in Rejoiners : Running /\ reconnectToGameAs(c)
    \/ \E c \in Rejoiners, gameID \in GameIDs :
          Running /\ reconnectAppended(c, gameID)
    \/ \E c \in Rejoiners : Running /\ botMoveCall(c)
    \/ \E f \in locked, c \in Rejoiners : Running /\ botMoveReturn(f, c)
    \/ \E c \in Rejoiners, i \in 1..MaxPieces :
          Running /\ botMoveBroadcast(c, i)

NameSpec == Init /\ [][NameNext]_vars

\* ------------------------------------------------------------------------
\* Games played on from a position.  A position is given by the columns of
\* the moves that lead to it from the start of a game between two humans,
\* and is built by playing them.
\* ------------------------------------------------------------------------
\* number of moves played on from a position
MaxPlies == 2

\* the start of a game
OpenEmpty == <<>>

\* slot A completes a row in column 2
OpenRows == <<1, 6, 3, 3, 4, 1>>

\* slot B completes a row in column 2
OpenRowsB == <<0, 3, 6, 4, 4, 1, 3>>

\* slot A completes a column in 6, slot B in 3
OpenColumns == <<6, 1, 6, 3, 6, 3>>

\* slot A completes a falling diagonal in column 2
OpenFalling == <<3, 2, 5, 3, 2, 4, 3, 2, 4, 5>>

\* slot B completes a falling diagonal in column 1
OpenFallingB == <<0, 3, 0, 2, 0, 2, 1, 0, 1>>

\* slot A completes a rising diagonal in column 3
OpenRising == <<1, 4, 3, 4, 2, 4, 4, 3, 2, 6>>

\* slot B completes a rising diagonal in column 5
OpenRisingB == <<5, 2, 4, 3, 4, 4, 5, 3, 5>>

\* forty moves of a game that can end in a draw: columns 3 and 0 have one cell left
OpenDraw ==
    <<4, 1, 6, 2, 1, 0, 1, 4, 4, 2, 4, 1, 3, 6, 3, 3, 1, 0, 4, 6, 6, 1, 2,
    3, 2, 3, 2, 2, 6, 5, 5, 0, 5, 4, 6, 5, 5, 5, 0, 0>>

\* forty moves of a game whose last cell completes a row: column 3 has two cells left
OpenLastCell ==
    <<2, 6, 0, 0, 3, 5, 2, 6, 2, 1, 0, 1, 0, 2, 0, 1, 5, 0, 1, 5, 1, 1, 6,
    2, 4, 2, 6, 4, 4, 5, 4, 4, 4, 6, 6, 5, 5, 3, 3, 3>>

\* slot A completes a row of five in column 2
OpenFive == <<0, 0, 1, 1, 3, 3, 4, 4>>

Openings == {OpenFive, OpenEmpty, OpenRows, OpenRowsB, OpenColumns, OpenFalling,
             OpenFallingB, OpenRising, OpenRisingB, OpenDraw, OpenLastCell}

GameColumns == (-1)..COLS

\* the board after the moves: the k-th piece of a column, from the bottom, is
\* the k-th move into it, and slot A makes the odd moves
BoardAfter(columns) ==
    [r \in RowIdx |-> [c \in ColIdx |->
        LET into == {i \in 1..Len(columns) : columns[i] = c}
            kth == {i \in into :
                      Cardinality({j \in into : j <= i}) = ROWS - r}
        IN  IF kth = {} THEN EMPTY
            ELSE IF (CHOOSE i \in kth : TRUE) % 2 = 1 THEN PLAYER1 ELSE PLAYER2]]

StartGame(columns) ==
    [AddPlayer2(NewGame(Player(Alice, FALSE), 1, 0), Player(Bob, FALSE))
        EXCEPT !.Board = BoardAfter(columns),
               !.CurrentTurn = IF Len(columns) % 2 = 0 THEN PLAYER1 ELSE PLAYER2]

\* moves starts so that MaxPlies more pieces can be placed
GameInit ==
    /\ AuxInit
    /\ \E columns \in Openings : games = (1 :> StartGame(columns))
    /\ waitingPlayer = Nil
    /\ leaderboard = <<>>
    /\ playerWins = <<>>
    /\ locked = {}
    /\ timers = {}
    /\ nextId = 2
    /\ now = 0
    /\ moves = MaxPieces - MaxPlies

GameNext ==
    \/ \E column \in GameColumns, username \in {Alice, Bob} :
          CallMakeMove(1, column, username)
    \/ \E f \in locked : Unlock(f)

GameSpec == GameInit /\ [][GameNext]_vars

\* ------------------------------------------------------------------------
\* Two games played to their end, one after the other, so that the entries
\* of the leaderboard are made and then updated.
\* ------------------------------------------------------------------------
StatsOpenings == {OpenRows, OpenRowsB, OpenDraw}

\* the columns that end the games of StatsOpenings, and one that does not
StatsColumns == {0, 2, 3}

\* the second game: the same names in the other slots, or the scripted
\* opponent in slot B
SecondGames(columns) ==
    {[StartGame(columns) EXCEPT !.ID = 2,
                                !.Player1 = Player(Bob, FALSE),
                                !.Player2 = Ptr(Player(Alice, FALSE))],
     [StartGame(columns) EXCEPT !.ID = 2,
                                !.Player2 = Ptr(BotPlayer),
                                !.IsBot = TRUE]}

\* moves starts so that MaxPlies more pieces can be placed in each game
StatsInit ==
    /\ AuxInit
    /\ \E first \in StatsOpenings, second \in StatsOpenings :
          \E g \in SecondGames(second) :
              games = (1 :> StartGame(first)) @@ (2 :> g)
    /\ waitingPlayer = Nil
    /\ leaderboard = <<>>
    /\ playerWins = <<>>
    /\ locked = {}
    /\ timers = {}
    /\ nextId = 3
    /\ now = 0
    /\ moves = MaxPieces - 2 * MaxPlies

StatsNext ==
    \/ \E gameID \in {1, 2}, column \in StatsColumns, username \in {Alice, Bob} :
          CallMakeMove(gameID, column, username)
    \/ \E gameID \in {1, 2} : CallMakeBotMove(gameID)
    \/ \E f \in locked : Unlock(f)

StatsSpec == StatsInit /\ [][StatsNext]_vars

\* the minutes the two games take at most
MaxMinutes == 3

\* a minute passes
Wait ==
    /\ now < MaxMinutes
    /\ now' = now + 1
    /\ UNCHANGED <<games, waitingPlayer, leaderboard, playerWins, locked,
                   timers, nextId, moves>>
    /\ UNCHANGED auxVars

\* the same two games with the clock running: time.Since(game.CreatedAt) is
\* positive, so the moves come a minute or more after the games were created
TimesNext ==
    \/ \E gameID \in {1, 2}, column \in StatsColumns, username \in {Alice, Bob} :
          now > 0 /\ CallMakeMove(gameID, column, username)
    \/ \E gameID \in {1, 2} : now > 0 /\ CallMakeBotMove(gameID)
    \/ \E f \in locked : Unlock(f)
    \/ Wait

TimesSpec == StatsInit /\ [][TimesNext]_vars

\* ------------------------------------------------------------------------
\* The leaderboard as GetLeaderboard returns it.  The games of RankSpec are
\* played against the scripted opponent by one name after the other, each
\* name once, and the accessor ranges over the map in one of several orders.
\* ------------------------------------------------------------------------
LeaderboardLimit == 10

\* the names that play: one more than the response holds
MaxEntries == 11

\* the names that win their game
MaxWinners == 2

RankNames == [k \in 1..MaxEntries |-> [i \in 1..k |-> "p"]]

\* how a game ends: lost after two minutes, won after one, won after two
RankResults == {<<PLAYER2, 2>>, <<PLAYER1, 1>>, <<PLAYER1, 2>>}

\* the condition of the exchange in GetLeaderboard with zeros sorted first
MustSwap_ZerosFirst(a, b) == a.BestTime > b.BestTime

\* the condition under which GetLeaderboard exchanges leaderboard[i] = a and
\* leaderboard[j] = b
MustSwap(a, b) ==
    \/ a.BestTime = 0 /\ b.BestTime > 0
    \/ a.BestTime > 0 /\ b.BestTime > 0 /\ a.BestTime > b.BestTime

\* the two loops of GetLeaderboard, from leaderboard[i] and leaderboard[j] on
RECURSIVE SortLoops(_, _, _)
SortLoops(list, i, j) ==
    IF i > Len(list) - 1 THEN list
    ELSE IF j > Len(list) THEN SortLoops(list, i + 1, i + 2)
    ELSE SortLoops(IF MustSwap(list[i], list[j])
                   THEN [list EXCEPT ![i] = list[j], ![j] = list[i]]
                   ELSE list,
                   i, j + 1)

\* the response of GetLeaderboard when the range over m.leaderboard yields
\* the names in the order of order
LeaderboardRows(board, order) ==
    LET sorted == SortLoops([k \in 1..Len(order) |-> board[order[k]]], 1, 2)
    IN  IF Len(sorted) > LeaderboardLimit
        THEN SubSeq(sorted, 1, LeaderboardLimit)
        ELSE sorted

Rotate(list, k) ==
    [i \in 1..Len(list) |-> list[((i + k - 1) % Len(list)) + 1]]

Reverse(list) == [i \in 1..Len(list) |-> list[Len(list) + 1 - i]]

\* the names of the map in the order of RankNames
NamesOf(board) == SelectSeq(RankNames, LAMBDA name : name \in DOMAIN board)

\* orders in which a range over the map yields its names: the order of
\* RankNames from each name on, and that order backwards
IterationOrders(board) ==
    LET names == NamesOf(board)
        turned == {Rotate(names, k) : k \in 0..(Len(names) - 1)}
    IN  {names, Reverse(names)} \cup turned

\* the game of the next name against the scripted opponent ends:
\* saveGameResult under the lock of MakeMove or MakeBotMove
BotGameEnds(k, result) ==
    /\ MutexFree
    /\ readers = {}
    /\ k = Cardinality(DOMAIN leaderboard) + 1
    /\ k <= MaxEntries
    /\ result[1] = PLAYER1 =>
          Cardinality({name \in DOMAIN leaderboard :
                          leaderboard[name].Wins > 0}) < MaxWinners
    /\ LET g == [AddPlayer2(NewGame(Player(RankNames[k], FALSE), 1, 0),
                            BotPlayer)
                    EXCEPT !.Status = "finished", !.Winner = result[1]]
           out == saveGameResult(Reg, g, result[2])
       IN  /\ leaderboard' = out.leaderboard
           /\ playerWins' = out.playerWins
    /\ UNCHANGED <<games, waitingPlayer, locked, timers, nextId, now, moves>>
    /\ UNCHANGED auxVars

\* GetLeaderboard with the order its range takes
GetLeaderboardIn(order) ==
    /\ RLockFree
    /\ readers = {}
    /\ Read("GetLeaderboard", TRUE, LeaderboardRows(leaderboard, order))

RankNext ==
    \/ \E k \in 1..MaxEntries, result \in RankResults : BotGameEnds(k, result)
    \/ \E order \in IterationOrders(leaderboard) : GetLeaderboardIn(order)
    \/ \E r \in readers : ReadReturns(r)

RankSpec == Init /\ [][RankNext]_vars

\* ------------------------------------------------------------------------
\* The move of the scripted opponent, on boards where it is its turn, after
\* each number of consecutive wins of the human player.
\* ------------------------------------------------------------------------
\* the consecutive wins of the human player: one past the cap of the
\* difficulty level
MaxStreak == 6

\* slot B completes a row in column 0 and in column 4
OpenTwoWins == <<5, 1, 5, 2, 6, 3, 6>>

\* slot B has no move that completes a line
OpenCentre == <<3>>

BotOpenings ==
    {OpenRowsB, OpenFallingB, OpenRisingB, OpenTwoWins, OpenCentre}

\* the human player has won streak games in a row, a minute each
BotInit ==
    /\ AuxInit
    /\ \E columns \in BotOpenings :
          games = (1 :> [StartGame(columns) EXCEPT !.Player2 = Ptr(BotPlayer),
                                                   !.IsBot = TRUE])
    /\ waitingPlayer = Nil
    /\ \E streak \in 0..MaxStreak :
          /\ playerWins = IF streak = 0 THEN <<>> ELSE (Alice :> streak)
          /\ leaderboard =
                IF streak = 0 THEN <<>>
                ELSE (Alice :> [Username    |-> Alice,
                                GamesPlayed |-> streak,
                                TotalTime   |-> streak,
                                Wins        |-> streak,
                                BestTime    |-> 1])
    /\ locked = {}
    /\ timers = {}
    /\ nextId = 2
    /\ now = 0
    /\ moves = MaxPieces - MaxPlies

BotNext ==
    \/ CallMakeBotMove(1)
    \/ \E f \in locked : Unlock(f)

BotSpec == BotInit /\ [][BotNext]_vars

\* ------------------------------------------------------------------------
\* The move of the scripted opponent on boards with full columns: the
\* positions of two games that fill the board, each after an odd number of
\* moves, so that it is the scripted opponent's turn.
\* ------------------------------------------------------------------------
\* the moves of the shortest position
MinFilled == 21

FilledOpenings ==
    {SubSeq(columns, 1, n) :
        columns \in {OpenDraw, OpenLastCell},
        n \in {k \in MinFilled..Len(OpenDraw) : k % 2 = 1}}

SelectInit ==
    /\ AuxInit
    /\ \E columns \in FilledOpenings \cup BotOpenings :
          games = (1 :> [StartGame(columns) EXCEPT !.Player2 = Ptr(BotPlayer),
                                                   !.IsBot = TRUE])
    /\ waitingPlayer = Nil
    /\ \E streak \in 0..MaxStreak :
          /\ playerWins = IF streak = 0 THEN <<>> ELSE (Alice :> streak)
          /\ leaderboard =
                IF streak = 0 THEN <<>>
                ELSE (Alice :> [Username    |-> Alice,
                                GamesPlayed |-> streak,
                                TotalTime   |-> streak,
                                Wins        |-> streak,
                                BestTime    |-> 1])
    /\ locked = {}
    /\ timers = {}
    /\ nextId = 2
    /\ now = 0
    /\ moves = MaxPieces - MaxPlies

SelectSpec == SelectInit /\ [][BotNext]_vars

\* ------------------------------------------------------------------------
\* Properties
\* ------------------------------------------------------------------------
StatusStep(a, b) ==
    \/ a = b
    \/ a = "waiting" /\ b = "playing"
    \/ a = "playing" /\ b = "finished"

Marks(board, mark) ==
    Cardinality({rc \in RowIdx \X ColIdx : board[rc[1]][rc[2]] = mark})

\* C1: in every step, a game that stays in the registry keeps its status or
\* steps waiting -> playing or playing -> finished, a game that enters the
\* registry is waiting, and a finished game keeps its status, winner, board
\* and current turn.
C1_StatusOnlyAdvances ==
    [][\A id \in DOMAIN games' :
          IF id \in DOMAIN games
          THEN /\ StatusStep(games[id].Status, games'[id].Status)
               /\ games[id].Status = "finished" =>
                     /\ games'[id].Status = "finished"
                     /\ games'[id].Winner = games[id].Winner
                     /\ games'[id].Board = games[id].Board
                     /\ games'[id].CurrentTurn = games[id].CurrentTurn
          ELSE games'[id].Status = "waiting"]_vars

\* a move sent to a finished game is about to return
C1_Witness ==
    \E f \in locked :
        /\ f.op = "MakeMove"
        /\ f.args.gameID \in DOMAIN games
        /\ games[f.args.gameID].Status = "finished"
        /\ games[f.args.gameID].Player1.Username = f.args.username
        /\ f.args.column = 0
        /\ f.out.err = "ErrGameNotActive"

\* the registry as a game's marks and turn show it: the first player has as
\* many marks as the second or one more, and the turn says which
TurnMatchesBoard(g) ==
    LET a == Marks(g.Board, PLAYER1)
        b == Marks(g.Board, PLAYER2)
    IN  /\ a = b \/ a = b + 1
        /\ g.Status # "finished" => g.CurrentTurn = (IF a = b THEN PLAYER1 ELSE PLAYER2)
        /\ g.Status = "finished" => g.CurrentTurn = (IF a = b THEN PLAYER2 ELSE PLAYER1)

\* C2: at most one operation is inside the critical section; the registry
\* changes only in the step in which the one operation inside leaves, and it
\* becomes what that operation worked out from the registry it found, so the
\* operations take effect one after another; and every game's marks and turn
\* agree, so no turn was taken twice.
C2_MovesSerialized ==
    [][/\ Cardinality(locked') <= 1
       /\ Reg' # Reg => \E f \in locked : /\ locked = {f}
                                         /\ locked' = {}
                                         /\ Reg' = f.out.reg
       /\ games' # games => \A id \in DOMAIN games' : TurnMatchesBoard(games'[id])]_vars

\* a second move of a game is about to be applied
C2_Witness ==
    \E f \in locked :
        /\ f.op \in {"MakeMove", "MakeBotMove"}
        /\ f.out.move # NoMove
        /\ f.out.move[1].Player = PLAYER2
        /\ moves >= 1

\* C3: slot B of a game, once filled, keeps its occupant; a pairing timeout
\* that comes after a join finds the game no longer waiting and changes
\* nothing, and so does a join by id that comes after the timeout.
C3_SlotBFilledOnce ==
    /\ [][\A id \in DOMAIN games \cap DOMAIN games' :
             games[id].Player2 # Nil => games'[id].Player2 = games[id].Player2]_vars
    /\ [](\A f \in locked :
             /\ (/\ f.op = "startBotTimeout"
                 /\ f.args.gameID \in DOMAIN games
                 /\ games[f.args.gameID].Status # "waiting")
                => f.out.reg = Reg
             /\ (/\ f.op = "JoinSpecificGame"
                 /\ f.args.gameID \in DOMAIN games
                 /\ games[f.args.gameID].Status # "waiting")
                => f.out.reg = Reg)

\* the timeout of a game that a human has joined is about to return
C3_Witness ==
    \E f \in locked :
        /\ f.op = "startBotTimeout"
        /\ f.args.gameID \in DOMAIN games
        /\ games[f.args.gameID].Player2 # Nil
        /\ ~games[f.args.gameID].Player2[1].IsBot
        /\ ~f.out.injected

WaitingGames == {id \in DOMAIN games : games[id].Status = "waiting"}

\* the name FindOrCreateGame gives a caller
Normalized(username) == Truncate(TrimSpace(username))

\* C4: at most one game is waiting; the queue holds a player exactly when a
\* game is waiting, and then it holds that game's first player; and a join
\* that returns a game to a player whose name is not the queued one leaves
\* the queue empty.
C4_OneQueuedOneWaiting ==
    /\ Cardinality(WaitingGames) <= 1
    /\ Len(waitingPlayer) <= 1
    /\ waitingPlayer # Nil <=> WaitingGames # {}
    /\ \A id \in WaitingGames :
          waitingPlayer # Nil /\ waitingPlayer[1] = games[id].Player1
    /\ \A f \in locked :
          (/\ f.op \in {"FindOrCreateGame", "JoinSpecificGame"}
           /\ f.out.game # 0
           /\ waitingPlayer # Nil
           /\ f.out.player[1].Username # waitingPlayer[1].Username)
          => f.out.reg.waitingPlayer = Nil

\* with two games in the registry, a join by id of the waiting one is about
\* to empty the queue
C4_Witness ==
    /\ Cardinality(DOMAIN games) = 2
    /\ waitingPlayer # Nil
    /\ \E f \in locked :
          /\ f.op = "JoinSpecificGame"
          /\ f.out.err = "nil"
          /\ f.out.player[1].Username # waitingPlayer[1].Username
          /\ f.out.reg.waitingPlayer = Nil

\* C5: FindOrCreateGame under a name X on an empty queue creates a waiting
\* game with X in slot A and queues X; FindOrCreateGame under another name Y
\* while X is queued returns that same game and creates none: the game is
\* then playing, with X in slot A, the human Y in slot B, the turn at slot A
\* and an empty board, the queue is empty and the call returns isWaiting =
\* FALSE.
C5_TwoNamesShareOneGame ==
    \A f \in locked :
        f.op = "FindOrCreateGame" /\ Normalized(f.args.username) # <<>> =>
        LET name == Normalized(f.args.username)
            out == f.out
        IN  /\ waitingPlayer = Nil =>
                 /\ out.created /\ out.isWaiting
                 /\ out.game \notin DOMAIN games
                 /\ DOMAIN out.reg.games = DOMAIN games \cup {out.game}
                 /\ out.reg.games[out.game].Status = "waiting"
                 /\ out.reg.games[out.game].Player1 = Player(name, FALSE)
                 /\ out.reg.games[out.game].Player2 = Nil
                 /\ out.reg.waitingPlayer = Ptr(Player(name, FALSE))
            /\ (waitingPlayer # Nil /\ waitingPlayer[1].Username # name) =>
                 /\ out.game \in WaitingGames
                 /\ games[out.game].Player1 = waitingPlayer[1]
                 /\ DOMAIN out.reg.games = DOMAIN games
                 /\ \A id \in DOMAIN games \ {out.game} :
                       out.reg.games[id] = games[id]
                 /\ out.reg.games[out.game].Status = "playing"
                 /\ out.reg.games[out.game].Player1 = waitingPlayer[1]
                 /\ out.reg.games[out.game].Player2 = Ptr(Player(name, FALSE))
                 /\ ~out.reg.games[out.game].IsBot
                 /\ out.reg.games[out.game].CurrentTurn = PLAYER1
                 /\ out.reg.games[out.game].Board = EmptyBoard
                 /\ out.reg.waitingPlayer = Nil
                 /\ ~out.isWaiting /\ ~out.created

\* a second name is about to be paired with the queued one
C5_Witness ==
    \E f \in locked :
        /\ f.op = "FindOrCreateGame"
        /\ waitingPlayer # Nil
        /\ f.out.game \in WaitingGames
        /\ f.out.player # Nil
        /\ f.out.player[1].Username # waitingPlayer[1].Username
        /\ ~f.out.isWaiting

\* a call of FindOrCreateGame under the queued name
IsRejoin(f) ==
    /\ f.op = "FindOrCreateGame"
    /\ waitingPlayer # Nil
    /\ Normalized(f.args.username) = waitingPlayer[1].Username

\* C6: FindOrCreateGame under the queued name returns that name's waiting
\* game with isWaiting = TRUE; it creates no game, starts no pairing
\* timeout and leaves the games and the queue as they are.
C6_RejoinIdempotent ==
    [][/\ \A f \in locked' \ locked :
             IsRejoin(f) =>
                /\ f.out.game \in WaitingGames
                /\ games[f.out.game].Player1.Username = waitingPlayer[1].Username
                /\ f.out.isWaiting
                /\ f.out.reg = Reg
                /\ timers' = timers /\ nextId' = nextId
       /\ \A f \in locked \ locked' :
             IsRejoin(f) =>
                /\ games' = games /\ waitingPlayer' = waitingPlayer
                /\ timers' = timers /\ nextId' = nextId]_vars

\* the queued name, sent with blanks around it, is about to get its game back
C6_Witness ==
    \E f \in locked :
        /\ IsRejoin(f)
        /\ f.args.username # waitingPlayer[1].Username
        /\ f.out.game \in WaitingGames
        /\ f.out.isWaiting

\* A pairing timeout that has slept its 10 seconds asks for the mutex, and
\* sync.Mutex hands the mutex to a goroutine that keeps waiting for it
\* (starvation mode); an operation that holds the mutex returns.
FairSpec ==
    /\ Spec
    /\ \A gameID \in 1..MaxGames : SF_vars(FireBotTimeout(gameID))
    /\ WF_vars(\E f \in locked : Unlock(f))

\* C7: a waiting game does not stay waiting for ever; the pairing timeout of
\* a game that is still waiting puts the scripted player in slot B, marks the
\* game as played against the scripted opponent, sets it playing and empties
\* the queue; a waiting game has its timeout ahead of it or running, and a
\* timeout that has run is not started again.
C7_WaitingEnds ==
    /\ \A gameID \in 1..MaxGames :
          (gameID \in WaitingGames) ~> (gameID \notin WaitingGames)
    /\ [](\A f \in locked :
             (/\ f.op = "startBotTimeout"
              /\ f.args.gameID \in WaitingGames)
             => /\ f.out.injected
                /\ f.out.reg.games[f.args.gameID] =
                      [games[f.args.gameID] EXCEPT !.Player2 = Ptr(BotPlayer),
                                                   !.IsBot = TRUE,
                                                   !.Status = "playing"]
                /\ f.out.reg.waitingPlayer = Nil)
    /\ [](\A gameID \in WaitingGames :
             \/ gameID \in timers
             \/ \E f \in locked : /\ f.op = "startBotTimeout"
                                   /\ f.args.gameID = gameID)
    /\ [][\A gameID \in 1..(nextId - 1) :
             gameID \notin timers => gameID \notin timers']_vars

\* the timeout of a game that is still waiting is about to fill slot B
C7_Witness ==
    \E f \in locked :
        /\ f.op = "startBotTimeout"
        /\ f.args.gameID \in WaitingGames
        /\ f.out.injected
        /\ f.out.reg.games[f.args.gameID].Player2[1].IsBot

\* what a join by id that passes all checks leaves and returns
JoinFills(f) ==
    LET id == f.args.gameID
        player == Player(f.args.username, FALSE)
    IN  /\ f.out.err = "nil" /\ f.out.game = id /\ f.out.player = Ptr(player)
        /\ f.out.reg.games =
              [games EXCEPT ![id] = [@ EXCEPT !.Player2 = Ptr(player),
                                              !.IsBot = FALSE,
                                              !.Status = "playing"]]
        /\ f.out.reg.waitingPlayer =
              (IF waitingPlayer # Nil /\ waitingPlayer[1] = games[id].Player1
               THEN Nil ELSE waitingPlayer)
        /\ f.out.reg.leaderboard = leaderboard
        /\ f.out.reg.playerWins = playerWins

JoinFails(f, e) == f.out.err = e /\ f.out.game = 0 /\ f.out.reg = Reg

JoinReturnsOwnGame(f) ==
    f.out.err = "nil" /\ f.out.game = f.args.gameID /\ f.out.reg = Reg

\* C8 (as amended): JoinSpecificGame answers ErrGameNotFound if no game has
\* the id; otherwise ErrGameNotActive if the game is not waiting; otherwise,
\* if the name is slot A's, it returns the game and changes nothing;
\* otherwise ErrGameFull if slot B is taken; otherwise it fills slot B,
\* empties the queue if it held the game's slot-A player, and sets the game
\* playing.
C8_JoinChecksInOrder ==
    \A f \in locked :
        f.op = "JoinSpecificGame" =>
        LET id == f.args.gameID
        IN  IF id \notin DOMAIN games THEN JoinFails(f, "ErrGameNotFound")
            ELSE IF games[id].Status # "waiting"
                 THEN JoinFails(f, "ErrGameNotActive")
            ELSE IF games[id].Player1.Username = f.args.username
                 THEN JoinReturnsOwnGame(f)
            ELSE IF games[id].Player2 # Nil THEN JoinFails(f, "ErrGameFull")
            ELSE JoinFills(f)

\* C8 (as claimed): the same, with the check of slot A's name before the
\* check of the status.
C8_SlotAFirstAsClaimed ==
    \A f \in locked :
        f.op = "JoinSpecificGame" =>
        LET id == f.args.gameID
        IN  IF id \notin DOMAIN games THEN JoinFails(f, "ErrGameNotFound")
            ELSE IF games[id].Player1.Username = f.args.username
                 THEN JoinReturnsOwnGame(f)
            ELSE IF games[id].Status # "waiting"
                 THEN JoinFails(f, "ErrGameNotActive")
            ELSE IF games[id].Player2 # Nil THEN JoinFails(f, "ErrGameFull")
            ELSE JoinFills(f)

\* the first player of a game that is no longer waiting joins it by id and
\* is about to be refused
C8_Witness ==
    \E f \in locked :
        /\ f.op = "JoinSpecificGame"
        /\ f.args.gameID \in DOMAIN games
        /\ games[f.args.gameID].Status # "waiting"
        /\ games[f.args.gameID].Player1.Username = f.args.username
        /\ f.out.err = "ErrGameNotActive"

\* the outcome of a move request, by the order of C9
ClaimedMoveOutcome(gameID, column, name) ==
    IF gameID \notin DOMAIN games THEN "ErrGameNotFound"
    ELSE LET g == games[gameID]
             isA == name = g.Player1.Username
             isB == g.Player2 # Nil /\ name = g.Player2[1].Username
             slot == IF isA THEN PLAYER1 ELSE PLAYER2
         IN  IF ~isA /\ ~isB THEN "ErrPlayerNotFound"
             ELSE IF g.Status # "playing" THEN "ErrGameNotActive"
             ELSE IF slot # g.CurrentTurn THEN "ErrNotYourTurn"
             ELSE IF column \notin 0..6 THEN "ErrInvalidColumn"
             ELSE IF \A r \in RowIdx : g.Board[r][column] # EMPTY
                  THEN "ErrColumnFull"
             ELSE "nil"

\* C9: a move request gets ErrGameNotFound if no game has the id, else
\* ErrPlayerNotFound if the name is in neither slot, else ErrGameNotActive if
\* the game is not playing, else ErrNotYourTurn if the name's slot does not
\* have the turn, else ErrInvalidColumn if the column is outside 0..6, else
\* ErrColumnFull if the column has no empty cell, else a Move and no error.
C9_MoveOutcomeOrder ==
    \A f \in locked :
        f.op = "MakeMove" =>
           /\ f.out.err = ClaimedMoveOutcome(f.args.gameID, f.args.column,
                                             f.args.username)
           /\ f.out.err = "nil" <=> f.out.move # NoMove

\* a move into a full column, by the player whose turn it is, is about to be
\* refused
C9_Witness ==
    \E f \in locked :
        /\ f.op = "MakeMove"
        /\ f.out.err = "ErrColumnFull"
        /\ games[f.args.gameID].Status = "playing"

IsRejectedMove(f) ==
    f.op \in {"MakeMove", "MakeBotMove"} /\ f.out.err # "nil"

\* C10: a move request that is answered with an error leaves the games, the
\* queue, the leaderboard and the win streaks as they are, and a move that
\* the game itself refuses leaves the game as it is.
C10_RejectedMoveChangesNothing ==
    [][/\ \A f \in locked' \ locked :
             IsRejectedMove(f) => f.out.reg = Reg /\ f.out.move = NoMove
       /\ \A f \in locked \ locked' :
             IsRejectedMove(f) => Reg' = Reg /\ moves' = moves
       /\ games' # games =>
             \A id \in DOMAIN games', column \in Columns,
                player \in {PLAYER1, PLAYER2} :
                LET res == Game_MakeMove(games'[id], column, player, now')
                IN  res.err # "nil" => res.game = games'[id] /\ res.move = NoMove]_vars

\* a move out of turn, sent later than the game's last move, is about to be
\* refused
C10_Witness ==
    \E f \in locked :
        /\ f.op = "MakeMove"
        /\ f.out.err = "ErrNotYourTurn"
        /\ games[f.args.gameID].LastMove < now
        /\ Marks(games[f.args.gameID].Board, PLAYER1) >= 1

IsAppliedMove(f) ==
    f.op \in {"MakeMove", "MakeBotMove"} /\ f.out.move # NoMove

\* C11: a successful move is made by the slot that has the turn; if it does
\* not finish the game the turn passes to the other slot, if it finishes the
\* game the turn stays with the mover; the first move of a game is slot A's
\* and the mover is A when both have equally many marks, else B.
C11_TurnsAlternate ==
    /\ \A f \in locked :
          IsAppliedMove(f) =>
          LET id == f.args.gameID
              mover == f.out.move[1].Player
              pre == games[id]
              post == f.out.reg.games[id]
          IN  /\ pre.Status = "playing"
              /\ pre.CurrentTurn = mover
              /\ mover = (IF Marks(pre.Board, PLAYER1) = Marks(pre.Board, PLAYER2)
                          THEN PLAYER1 ELSE PLAYER2)
              /\ post.Status = "playing" =>
                    post.CurrentTurn = (IF mover = PLAYER1 THEN PLAYER2 ELSE PLAYER1)
              /\ post.Status # "playing" =>
                    post.Status = "finished" /\ post.CurrentTurn = mover
    /\ \A id \in DOMAIN games :
          games[id].Board = EmptyBoard => games[id].CurrentTurn = PLAYER1

\* the fourth move of a game, by slot B, is about to be applied and does not
\* finish the game
C11_Witness ==
    \E f \in locked :
        /\ IsAppliedMove(f)
        /\ f.out.move[1].Player = PLAYER2
        /\ Marks(games[f.args.gameID].Board, PLAYER2) = 1
        /\ f.out.reg.games[f.args.gameID].Status = "playing"
        /\ f.out.reg.games[f.args.gameID].CurrentTurn = PLAYER1

Gravity(board) ==
    \A c \in ColIdx, r \in 0..(ROWS - 2) :
        board[r][c] # EMPTY => board[r + 1][c] # EMPTY

\* C12: on the board of every game, and on the board every operation is
\* about to leave, no column has a non-empty cell above an empty cell.
C12_Gravity ==
    /\ \A id \in DOMAIN games : Gravity(games[id].Board)
    /\ \A f \in locked : \A id \in DOMAIN f.out.reg.games :
          Gravity(f.out.reg.games[id].Board)

\* a piece has been placed on top of another and the column is not full
C12_Witness ==
    \E id \in DOMAIN games, c \in ColIdx :
        /\ moves > MaxPieces - MaxPlies
        /\ games[id].Board[0][c] = EMPTY
        /\ games[id].Board[ROWS - 2][c] # EMPTY

\* C13: a successful move in column c by slot p: the returned Move holds the
\* game's id, p, c and the highest row index of the empty cells of column c
\* (row 5 in an empty column); that cell gets p's mark and every other cell
\* of the board stays as it was.
C13_OneCellChanges ==
    \A f \in locked :
        IsAppliedMove(f) /\ f.op = "MakeMove" =>
        LET id == f.args.gameID
            c == f.args.column
            pre == games[id]
            post == f.out.reg.games[id]
            p == IF f.args.username = pre.Player1.Username
                 THEN PLAYER1 ELSE PLAYER2
            m == f.out.move[1]
        IN  /\ m.GameID = pre.ID /\ m.Player = p /\ m.Column = c
            /\ m.Row \in RowIdx /\ c \in ColIdx
            /\ pre.Board[m.Row][c] = EMPTY
            /\ \A r \in RowIdx : r > m.Row => pre.Board[r][c] # EMPTY
            /\ (\A r \in RowIdx : pre.Board[r][c] = EMPTY) => m.Row = 5
            /\ post.Board[m.Row][c] = p
            /\ \A r \in RowIdx, k \in ColIdx :
                  <<r, k>> # <<m.Row, c>> => post.Board[r][k] = pre.Board[r][k]

\* slot B's first move into an empty column is about to land in row 5
C13_Witness ==
    \E f \in locked :
        /\ IsAppliedMove(f)
        /\ f.out.move[1].Player = PLAYER2
        /\ f.out.move[1].Row = 5
        /\ games[f.args.gameID].Board[5][f.out.move[1].Column] = EMPTY
        /\ \E k \in ColIdx : games[f.args.gameID].Board[4][k] # EMPTY

Axes == {<<0, 1>>, <<1, 0>>, <<1, 1>>, <<1, -1>>}

\* four cells in a line along an axis, (row, col) among them, all of mark
HasLine(board, row, col, mark) ==
    \E a \in Axes, k \in 0..3 :
        \A j \in 0..3 :
            LET r == row + (j - k) * a[1]
                c == col + (j - k) * a[2]
            IN  r \in RowIdx /\ c \in ColIdx /\ board[r][c] = mark

\* the win checks of the game and of the bot agree with HasLine at a cell
WinCheckRight(board, row, col, mark) ==
    /\ Game_checkWin(board, row, col, mark) <=> HasLine(board, row, col, mark)
    /\ Bot_checkWin(board, row, col, mark) <=> HasLine(board, row, col, mark)

\* C14: for every board of a game, every cell that holds a mark, and every
\* cell either mark would land on, the win check is true exactly when four
\* or more cells of the mark lie in a line through the cell along a row, a
\* column or a diagonal; and a move finishes the game with the mover as
\* winner exactly when this holds for the cell it fills.
C14_WinCheck ==
    /\ \A id \in DOMAIN games :
          LET board == games[id].Board
          IN  locked = {} =>
              /\ \A r \in RowIdx, c \in ColIdx :
                    board[r][c] # EMPTY => WinCheckRight(board, r, c, board[r][c])
              /\ \A c \in ColIdx, mark \in {PLAYER1, PLAYER2} :
                    board[0][c] = EMPTY =>
                    LET r == CHOOSE q \in RowIdx :
                                /\ board[q][c] = EMPTY
                                /\ \A x \in RowIdx : x > q => board[x][c] # EMPTY
                    IN  WinCheckRight([board EXCEPT ![r][c] = mark], r, c, mark)
    /\ \A f \in locked :
          IsAppliedMove(f) =>
          LET post == f.out.reg.games[f.args.gameID]
              m == f.out.move[1]
          IN  (post.Status = "finished" /\ post.Winner = m.Player)
              <=> HasLine(post.Board, m.Row, m.Column, m.Player)

\* a move that completes a rising diagonal is about to finish the game
C14_Witness ==
    \E f \in locked :
        /\ IsAppliedMove(f)
        /\ f.out.reg.games[f.args.gameID].Status = "finished"
        /\ f.out.reg.games[f.args.gameID].Winner = f.out.move[1].Player
        /\ LET m == f.out.move[1]
               board == f.out.reg.games[f.args.gameID].Board
           IN  \E k \in 0..3 : \A j \in 0..3 :
                  LET r == m.Row - (j - k)
                      c == m.Column + (j - k)
                  IN  r \in RowIdx /\ c \in ColIdx /\ board[r][c] = m.Player

BoardHasNoEmpty(board) ==
    \A r \in RowIdx, c \in ColIdx : board[r][c] # EMPTY

\* C15: a move that fills the last empty cell finishes the game, with the
\* mover as winner if it completes four in a line and as a draw (winner 0)
\* if not; and no game is playing on a board without an empty cell.
C15_FullBoardFinishes ==
    /\ \A f \in locked :
          IsAppliedMove(f) =>
          LET post == f.out.reg.games[f.args.gameID]
              m == f.out.move[1]
          IN  BoardHasNoEmpty(post.Board) =>
                 /\ post.Status = "finished"
                 /\ post.Winner = (IF HasLine(post.Board, m.Row, m.Column, m.Player)
                                   THEN m.Player ELSE 0)
    /\ \A id \in DOMAIN games :
          BoardHasNoEmpty(games[id].Board) => games[id].Status # "playing"
    /\ \A f \in locked : \A id \in DOMAIN f.out.reg.games :
          BoardHasNoEmpty(f.out.reg.games[id].Board)
             => f.out.reg.games[id].Status # "playing"

\* the move into the last empty cell is about to end the game in a draw
C15_Witness ==
    \E f \in locked :
        /\ IsAppliedMove(f)
        /\ BoardHasNoEmpty(f.out.reg.games[f.args.gameID].Board)
        /\ f.out.reg.games[f.args.gameID].Status = "finished"
        /\ f.out.reg.games[f.args.gameID].Winner = 0

\* delays after which a sweep is looked at: on both sides of the two ages
SweepDelays ==
    {0, WaitingMaxAge, WaitingMaxAge + 1, FinishedMaxAge, FinishedMaxAge + 1}

\* what C16 says of a sweep at time t that finds the registry as it is and
\* leaves out.reg
SweepRight(t, out) ==
    LET gone == DOMAIN games \ DOMAIN out.reg.games
    IN  /\ DOMAIN out.reg.games \subseteq DOMAIN games
        /\ \A id \in DOMAIN out.reg.games : out.reg.games[id] = games[id]
        /\ \A id \in gone :
              \/ games[id].Status = "finished" /\ t - games[id].LastMove > 30
              \/ games[id].Status = "waiting" /\ t - games[id].CreatedAt > 15
        /\ \A id \in gone : games[id].Status # "playing"
        /\ (\E id \in gone : /\ games[id].Status = "waiting"
                             /\ waitingPlayer # Nil
                             /\ waitingPlayer[1].Username = games[id].Player1.Username)
              => out.reg.waitingPlayer = Nil

\* C16: a sweep removes a game only if it is finished and its last move is
\* more than 30 minutes old, or it is waiting and was created more than 15
\* minutes ago; it never removes a playing game and leaves the games it keeps
\* as they are; and if it removes a waiting game whose first player is the
\* queued player, it empties the queue.
C16_SweepRemovesOnlyOld ==
    /\ \A f \in locked :
          f.op = "cleanupOldGames" => SweepRight(f.args.t, f.out)
    /\ locked = {} =>
          \A d \in SweepDelays : SweepRight(now + d, cleanupOldGames(Reg, now + d))

\* a sweep is about to remove a waiting game and empty the queue, and to
\* keep a playing game whose last move is more than 30 minutes old
C16_Witness ==
    \E f \in locked :
        /\ f.op = "cleanupOldGames"
        /\ waitingPlayer # Nil
        /\ f.out.reg.waitingPlayer = Nil
        /\ \E id \in DOMAIN games \ DOMAIN f.out.reg.games :
              games[id].Status = "waiting"
        /\ \E id \in DOMAIN f.out.reg.games :
              /\ games[id].Status = "playing"
              /\ f.args.t - games[id].LastMove > FinishedMaxAge

\* C17 (as claimed): while an operation is between Lock() and Unlock(), no
\* accessor is reading the games, the queue or the leaderboard.
C17_ReadersExcludeWriters ==
    \A r \in readers : locked = {}

\* C18: no task takes Hub.mutex while it holds Manager.mutex, and no task
\* takes Manager.mutex while it holds Hub.mutex: the Manager's notification
\* of the Hub starts only when the operation has released Manager.mutex.
C18_LocksNeverNested ==
    [][/\ \A h \in hubMutex' \ hubMutex : ~HoldsRegistry(h.owner)
       /\ \A f \in locked' \ locked : ~HoldsHub(TaskOf(f))]_vars


\* C19: an operation that holds Manager.mutex makes no call that waits for the
\* event stream or the database: it is never inside kafka.SendMessage or
\* db.Exec between its Lock and its Unlock.
C19_NoCollaboratorCallUnderLock ==
    \A f \in locked : CurrentCall(f) \notin {"kafka", "db"}


\* C20: a broadcast to a game enqueues the message on each of the game's
\* connections or, if the connection's queue is full, marks the connection
\* dead by closing the queue, and the teardown of a dead connection runs to
\* its end: no such step ends the server, and once Hub.Run has taken the
\* connection's unregistration the connection is neither in h.clients nor in
\* the list of its game.
C20_DeadConnectionTornDown ==
    /\ ~crashed
    /\ \A c \in JoinNames :
          readPump[c] = "done" => c \notin clients /\ ListedIn(c) = {}


\* C21: once Hub.Run has unregistered a connection, the connection is
\* neither in h.clients nor in the list of any game, so that no broadcast
\* to a game reaches it any more.
C21_UnregisteredIsGone ==
    \A c \in JoinNames :
        readPump[c] = "done" /\ ~crashed
            => c \notin clients /\ ListedIn(c) = {}


\* C22: at every moment a connection is in the list of at most one game, and
\* at most once in that list, however many join_game frames it has sent.
C22_OneAssociation ==
    \A c \in JoinNames :
        /\ Cardinality(ListedIn(c)) <= 1
        /\ \A gameID \in ListedIn(c) :
              Cardinality({i \in DOMAIN gameClients[gameID] :
                              gameClients[gameID][i] = c}) <= 1


\* the list without the connection c
Without(list, c) == SelectSeq(list, LAMBDA d : d # c)

\* C23: the step in which Hub.Run tears a connection down changes no game
\* of the Manager and nothing of another connection: the other connections
\* stay in h.clients and in their lists with their queues as they were, the
\* server goes on running, and the connection torn down leaves h.clients.
C23_TeardownIsLocal ==
    [][\A c \in JoinNames :
          readPump[c] = "unregistering" /\ readPump'[c] = "done"
              => /\ Reg' = Reg
                 /\ ~crashed'
                 /\ clients' = clients \ {c}
                 /\ DOMAIN gameClients' = DOMAIN gameClients
                 /\ \A gameID \in DOMAIN gameClients :
                       Without(gameClients'[gameID], c)
                           = Without(gameClients[gameID], c)
                 /\ \A d \in JoinNames \ {c} :
                       /\ send'[d] = send[d]
                       /\ sendClosed'[d] = sendClosed[d]
                       /\ readPump'[d] = readPump[d]
                       /\ connClosed'[d] = connClosed[d]]_vars


\* the step in which the handling of a malformed or unknown frame, or of a
\* frame whose handler panicked, comes to its end
BadFrameHandled(c) ==
    \/ frame[c].type \in {"malformed", "unknown"} /\ frame'[c] = NoFrame
    \/ c \in panicking /\ c \notin panicking'

\* C24: a frame that is a malformed envelope, has an unknown type or makes
\* its handler panic is answered with an error message in the queue of the
\* connection it came from (if the queue has room), changes nothing in the
\* Manager, and leaves the connection registered and reading.
C24_BadFrameAnswered ==
    [][\A c \in JoinNames :
          BadFrameHandled(c)
              => /\ Reg' = Reg
                 /\ c \in clients'
                 /\ readPump'[c] = "reading"
                 /\ Len(send[c]) < SendCap /\ ~sendClosed[c]
                       => send'[c] = Append(send[c], ErrorMsg)]_vars


\* the step ends the handling of a make_move frame of a connection whose
\* queue is open and has room, and the handler does not panic
MoveHandled(c) ==
    /\ frame[c].type \in {"make_move", "moved"}
    /\ frame'[c] = NoFrame
    /\ c \notin panicking
    /\ Len(send[c]) < SendCap /\ ~sendClosed[c]

\* the move was applied and move_made is queued for the connections of the
\* game that can take it
MoveBroadcast(c) ==
    /\ frame[c].type = "moved" /\ frame[c].err = "nil"
    /\ \A i \in DOMAIN ClientsOf(connGame[c]) :
          LET d == ClientsOf(connGame[c])[i]
          IN  Len(send[d]) < SendCap /\ ~sendClosed[d]
                  => /\ Len(send'[d]) > Len(send[d])
                     /\ send'[d][Len(send[d]) + 1].type = "move_made"

\* one error is queued for the connection and nothing for the others
MoveRefused(c) ==
    /\ send'[c] = Append(send[c], ErrorMsg)
    /\ \A d \in JoinNames \ {c} : send'[d] = send[d]

\* C25: every make_move request whose envelope is well formed is answered:
\* the move is applied and move_made is queued for the connections of the
\* game, or one error message is queued for the sender alone; the sender
\* stays registered and reading, also when it has joined no game.
C25_MoveAnswered ==
    [][\A c \in JoinNames :
          MoveHandled(c)
              => /\ c \in clients'
                 /\ readPump'[c] = "reading"
                 /\ MoveBroadcast(c) \/ MoveRefused(c)]_vars


\* the names in the slots of a game
SlotNames(g) ==
    {g.Player1.Username}
        \cup (IF g.Player2 = Nil THEN {} ELSE {g.Player2[1].Username})

\* the name of the winner of a game, if it has one
WinnerNames(g) ==
    IF g.Winner = PLAYER1 THEN {g.Player1.Username}
    ELSE IF g.Winner = PLAYER2 /\ g.Player2 # Nil THEN {g.Player2[1].Username}
    ELSE {}

\* the games that become finished in the step
Finishing ==
    {id \in DOMAIN games \cap DOMAIN games' :
        games[id].Status # "finished" /\ games'[id].Status = "finished"}

PlayedOf(board, name) ==
    IF name \in DOMAIN board THEN board[name].GamesPlayed ELSE 0

WonOf(board, name) ==
    IF name \in DOMAIN board THEN board[name].Wins ELSE 0

\* C26: the leaderboard changes only in a step in which a game becomes
\* finished; in every step the games played of a human name grow by the
\* games that become finished with the name in a slot and its wins by those
\* of them the name won, and the scripted opponent has no entry.
C26_LeaderboardCountsFinished ==
    [][/\ leaderboard' # leaderboard => Finishing # {}
       /\ BotName \notin DOMAIN leaderboard'
       /\ \A name \in JoinNames :
             LET ended == {id \in Finishing : name \in SlotNames(games'[id])}
                 won == {id \in ended : name \in WinnerNames(games'[id])}
             IN  /\ PlayedOf(leaderboard', name)
                       = PlayedOf(leaderboard, name) + Cardinality(ended)
                 /\ WonOf(leaderboard', name)
                       = WonOf(leaderboard, name) + Cardinality(won)]_vars

\* both games are finished, one of them against the scripted opponent, and
\* the name that played both has won one of them
C26_Witness ==
    /\ \A id \in {1, 2} : id \in DOMAIN games /\ games[id].Status = "finished"
    /\ games[2].IsBot
    /\ Alice \in DOMAIN leaderboard
    /\ leaderboard[Alice].GamesPlayed = 2
    /\ leaderboard[Alice].Wins = 1


\* the responses of GetLeaderboard that are being returned
Responses == {r.value : r \in {q \in readers : q.op = "GetLeaderboard"}}

\* the order the leaderboard is said to have: a positive best time before a
\* larger one and before 0
Precedes(a, b) ==
    /\ a.BestTime > 0
    /\ b.BestTime = 0 \/ a.BestTime < b.BestTime

Ranked(rows) ==
    /\ Len(rows) <= LeaderboardLimit
    /\ \A i, j \in DOMAIN rows : i < j => ~Precedes(rows[j], rows[i])

\* rows are entries of the leaderboard, each once, as many as the limit
\* allows, and no entry left out precedes one of them
TopOfLeaderboard(rows) ==
    LET all == {leaderboard[name] : name \in DOMAIN leaderboard}
        taken == {rows[i] : i \in DOMAIN rows}
    IN  /\ taken \subseteq all
        /\ Cardinality(taken) = Len(rows)
        /\ Len(rows) = IF Cardinality(all) > LeaderboardLimit
                       THEN LeaderboardLimit ELSE Cardinality(all)
        /\ \A e \in all \ taken : \A i \in DOMAIN rows : ~Precedes(e, rows[i])

BestTimes(rows) == [i \in DOMAIN rows |-> rows[i].BestTime]

\* C27: the response of GetLeaderboard has at most 10 entries, the positive
\* best times in non-decreasing order before the best times 0; it holds the
\* first 10 of that order, and its best times are those of the response to
\* a range in the order of RankNames, whatever the order of its own range.
C27_LeaderboardRanked ==
    \A rows \in Responses :
        /\ Ranked(rows)
        /\ TopOfLeaderboard(rows)
        /\ BestTimes(rows)
              = BestTimes(LeaderboardRows(leaderboard, NamesOf(leaderboard)))

\* C27 as claimed: the response itself is the response to a range in the
\* order of RankNames, whatever the order of its own range
C27_SameForEveryOrder ==
    \A rows \in Responses :
        /\ Ranked(rows)
        /\ TopOfLeaderboard(rows)
        /\ rows = LeaderboardRows(leaderboard, NamesOf(leaderboard))

\* eleven names have played, the first of them without a win, and the
\* response holds ten of them: both positive best times, then zeros
C27_Witness ==
    /\ Cardinality(DOMAIN leaderboard) = MaxEntries
    /\ leaderboard[RankNames[1]].BestTime = 0
    /\ \E rows \in Responses :
          /\ Len(rows) = LeaderboardLimit
          /\ rows[1].BestTime = 1
          /\ \E i \in DOMAIN rows : rows[i].BestTime = 2
          /\ rows[LeaderboardLimit].BestTime = 0


\* the step in which reconnectToGame decides on the reconnect frame of c
ReconnectDecided(c) ==
    /\ frame[c].type = "reconnect"
    /\ frame'[c] # frame[c]
    /\ c \notin panicking

\* C28: a reconnect request is accepted, and the connection then appended
\* to the connections of the game, if and only if the game exists and the
\* name is the name in one of its slots; if the game exists and the name is
\* in neither slot, the connection is sent the error "Not authorized for
\* this game" and is added to no game's connections.
C28_ReconnectChecksName ==
    [][\A c \in JoinNames :
          /\ ReconnectDecided(c) =>
                LET gameID == frame[c].gameID
                    exists == gameID \in DOMAIN games
                    named == exists /\ c \in SlotNames(games[gameID])
                IN  /\ named <=> frame'[c].type = "reconnected"
                    /\ named => /\ connGame'[c] = gameID
                                /\ <<c, gameID>> \in toAppend'
                    /\ ~named =>
                          /\ frame'[c] = NoFrame
                          /\ gameClients' = gameClients
                          /\ toAppend' = toAppend
                          /\ connGame' = connGame
                          /\ Len(send[c]) < SendCap /\ ~sendClosed[c] =>
                                send'[c] = Append(send[c],
                                    IF exists THEN NotAuthorized
                                    ELSE GameNotFound)
          /\ frame[c].type = "reconnected" /\ c \notin panicking
                /\ (frame'[c] # frame[c] \/ c \in panicking') =>
                gameClients'[connGame[c]]
                    = Append(IF connGame[c] \in DOMAIN gameClients
                             THEN gameClients[connGame[c]] ELSE <<>>, c)]_vars

\* the connection has been refused a game whose slot A holds another name,
\* and is in no game's connections
C28_Witness ==
    /\ 1 \in DOMAIN games
    /\ Alice \notin SlotNames(games[1])
    /\ \E i \in DOMAIN send[Alice] : send[Alice][i] = NotAuthorized
    /\ ListedIn(Alice) = {}


\* the columns in which a piece of mark completes four in a line
WinningColumns(board, mark) ==
    {col \in ColIdx :
        /\ board[0][col] = EMPTY
        /\ LET row == LowestEmptyRow(board, col)
           IN  HasLine([board EXCEPT ![row][col] = mark], row, col, mark)}

\* the difficulty level of a game: the consecutive wins of slot A, at most 5
DifficultyOf(g) ==
    LET wins == WinsOf(playerWins, g.Player1.Username)
    IN  IF wins > 5 THEN 5 ELSE wins

\* C29: when the scripted opponent moves at difficulty 2 or more on a board
\* where one of its moves completes four in a line, the column it plays is
\* the lowest such column, whatever the random source yields.
C29_TakesLowestWin ==
    \A f \in locked :
        (/\ f.op = "MakeBotMove"
         /\ f.out.move # NoMove
         /\ DifficultyOf(games[f.args.gameID]) >= 2
         /\ WinningColumns(games[f.args.gameID].Board, PLAYER2) # {})
            => f.out.move[1].Column
                  = MinOf(WinningColumns(games[f.args.gameID].Board, PLAYER2))


\* an operation has taken the Manager's mutex and sets the game, which was
\* waiting, to playing: it has not yet called out of the Manager
Pairing(gameID) ==
    /\ callsDone = 0 /\ ~inCall
    /\ gameID \in DOMAIN games
    /\ games[gameID].Status = "waiting"
    /\ \E f \in locked : /\ gameID \in DOMAIN f.out.reg.games
                         /\ f.out.reg.games[gameID].Status = "playing"

\* the connection has the game as its c.gameID or is in the game's list, its
\* join handler is about to register it or to answer, or it is the
\* connection whose join makes the pairing
Associated(c, gameID) ==
    \/ connGame[c] = gameID
    \/ gameID \in ListedIn(c)
    \/ <<c, gameID>> \in toAppend \cup toReply
    \/ \E f \in locked : TaskOf(f) = c /\ f.op # "MakeMove"
                         /\ f.out.game = gameID

\* a message that carries a game with status playing is in the queue
SentPlaying(c) == \E i \in DOMAIN send[c] : send[c][i].status = "playing"

\* the connection is torn down or being torn down, its handler is unwinding
\* a panic, or the process has stopped
Lost(c) == crashed \/ sendClosed[c] \/ c \notin clients \/ c \in panicking

ScriptedTurn(gameID) == gameID \in DOMAIN games /\ BotIsNext(games[gameID])

\* C31: a game against the scripted opponent in which the scripted opponent
\* is next does not stay so for ever while the server runs: the scripted
\* move that follows the human move is applied.
C31_ScriptedMoveFollows ==
    \A gameID \in 1..MaxGames :
        ScriptedTurn(gameID) ~> (~ScriptedTurn(gameID) \/ crashed)

\* a step sends on a closed queue or closes it again: the runtime panics, in
\* a handler that recovers or in a goroutine that does not
QueuePanics == (crashed' /\ ~crashed) \/ panicking' \ panicking # {}

\* C32: the queue of a connection is closed at most once, and nothing is
\* put on it once it is closed: no step closes a closed queue or sends on
\* it, a closed queue stays closed, and it does not grow.
C32_QueueClosedOnce ==
    [][/\ ~QueuePanics
       /\ \A c \in JoinNames :
             sendClosed[c] => sendClosed'[c] /\ Len(send'[c]) <= Len(send[c])]_vars

\* four cells in a line somewhere on the board, all of mark
HasFour(board, mark) ==
    \E r \in RowIdx, c \in ColIdx :
        board[r][c] = mark /\ HasLine(board, r, c, mark)

OtherMark(mark) == IF mark = PLAYER1 THEN PLAYER2 ELSE PLAYER1

BoardAgrees(g) ==
    /\ g.Status \in {"waiting", "playing", "finished"}
    /\ g.Winner \in {0, PLAYER1, PLAYER2}
    /\ g.Status # "finished" =>
          /\ g.Winner = 0
          /\ ~HasFour(g.Board, PLAYER1) /\ ~HasFour(g.Board, PLAYER2)
    /\ g.Status = "finished" /\ g.Winner # 0 =>
          /\ HasFour(g.Board, g.Winner)
          /\ ~HasFour(g.Board, OtherMark(g.Winner))
    /\ g.Status = "finished" /\ g.Winner = 0 =>
          /\ BoardHasNoEmpty(g.Board)
          /\ ~HasFour(g.Board, PLAYER1) /\ ~HasFour(g.Board, PLAYER2)

\* C33: the board of every game agrees with its status and winner: a game
\* that is waiting or playing has winner 0 and no four in a line of either
\* mark; a finished game with a winner has four in a line of the winner's
\* mark and none of the other mark; a finished game with winner 0 has a full
\* board and no four in a line.
C33_BoardAgreesWithStatus ==
    \A id \in DOMAIN games : BoardAgrees(games[id])

\* a game has ended with slot B's four in a line on a board that is not full
C33_Witness ==
    \E id \in DOMAIN games :
        /\ games[id].Status = "finished"
        /\ games[id].Winner = PLAYER2
        /\ HasFour(games[id].Board, PLAYER2)
        /\ Marks(games[id].Board, EMPTY) > 0

SlotsAgree(g) ==
    /\ g.Player1.Username # <<>>
    /\ g.Player2 = Nil <=> g.Status = "waiting"
    /\ g.IsBot <=> g.Player2 = Ptr(BotPlayer)

\* C34: in every game slot A holds a player with a name, slot B is empty
\* exactly when the game is waiting, and the game is marked as played against
\* the scripted opponent exactly when slot B holds the scripted player; and
\* no call of JoinSpecificGame returns ErrGameFull.
C34_SlotsAgreeWithStatus ==
    /\ \A id \in DOMAIN games : SlotsAgree(games[id])
    /\ \A f \in locked :
          /\ \A id \in DOMAIN f.out.reg.games : SlotsAgree(f.out.reg.games[id])
          /\ f.op = "JoinSpecificGame" => f.out.err # "ErrGameFull"

\* beside a game against the scripted opponent, a join by id under another
\* name than slot A's has passed the check of the status and of slot B
C34_Witness ==
    /\ \E id \in DOMAIN games : games[id].IsBot /\ games[id].Status = "playing"
    /\ \E f \in locked :
          /\ f.op = "JoinSpecificGame"
          /\ f.args.gameID \in WaitingGames
          /\ games[f.args.gameID].Player1.Username # f.args.username
          /\ f.out.err = "nil"
          /\ f.out.reg.games[f.args.gameID].Player2 # Nil

\* a column the scripted opponent may be given to play in
Playable(board, col) == col \in 0..(COLS - 1) /\ board[0][col] = EMPTY

\* C35: on a board with a column that is not full, GetBestMoveWithDifficulty
\* returns, for either mark and whatever the random source yields, a column
\* of the board whose top cell is empty; and MakeBotMove fails neither with
\* ErrInvalidColumn nor with ErrColumnFull.
C35_SelectsPlayableColumn ==
    /\ \A id \in DOMAIN games :
          LET board == games[id].Board
              wins == WinsOf(playerWins, games[id].Player1.Username)
          IN  (\E col \in ColIdx : board[0][col] = EMPTY) =>
                 \A mark \in {PLAYER1, PLAYER2} :
                    \A col \in GetBestMoveWithDifficulty(board, mark, wins) :
                       Playable(board, col)
    /\ \A f \in locked :
          f.op = "MakeBotMove" =>
             f.out.err \notin {"ErrInvalidColumn", "ErrColumnFull"}

\* the scripted opponent is about to play on a board whose columns 0 and 6
\* are full
C35_Witness ==
    \E f \in locked :
        /\ f.op = "MakeBotMove"
        /\ f.out.move # NoMove
        /\ games[f.args.gameID].Board[0][0] # EMPTY
        /\ games[f.args.gameID].Board[0][6] # EMPTY
        /\ Playable(games[f.args.gameID].Board, f.out.move[1].Column)

BestTimeOf(board, name) ==
    IF name \in DOMAIN board THEN board[name].BestTime ELSE 0

\* the operations that enter in the step and finish a game
Ending ==
    {f \in locked' \ locked :
        /\ f.op \in {"MakeMove", "MakeBotMove"}
        /\ f.out.move # NoMove
        /\ f.out.reg.games[f.out.game].Status = "finished"}

\* C36: the best time of a name without a win is 0; a game the name wins
\* makes its best time the game's duration if it had no win, and the smaller
\* of the two if it had; a game the name loses or draws leaves its best time
\* as it is.
C36_BestTimeIsBestWin ==
    [][/\ \A name \in DOMAIN leaderboard' :
             leaderboard'[name].Wins = 0 => leaderboard'[name].BestTime = 0
       /\ \A f \in Ending :
             LET g == f.out.reg.games[f.out.game]
                 duration == now - g.CreatedAt
             IN  \A name \in SlotNames(g) \cap JoinNames :
                    LET old == BestTimeOf(leaderboard, name)
                        new == BestTimeOf(f.out.reg.leaderboard, name)
                    IN  IF name \in WinnerNames(g)
                        THEN new = (IF WonOf(leaderboard, name) = 0 \/ duration < old
                                    THEN duration ELSE old)
                        ELSE new = old]_vars

\* C37: in the outbound queue of a connection the move_made messages stand
\* in the order in which their moves were applied, and each carries the
\* game as it was right after its own move
C37_MovesInOrder ==
    \A c \in JoinNames : \A i \in 1..Len(send[c]) :
       send[c][i].type = "move_made"
          => /\ send[c][i].pieces = send[c][i].move
             /\ \A j \in 1..(i - 1) :
                   send[c][j].type = "move_made"
                      => send[c][j].move < send[c][i].move

\* C38: in a game against the scripted opponent a mark of slot B is placed
\* by MakeBotMove only, whatever name a connection sends its frames with
C38_SlotBOnlyScripted ==
    [][\A gameID \in DOMAIN games :
          /\ games[gameID].IsBot
          /\ gameID \in DOMAIN games'
          /\ Marks(games'[gameID].Board, PLAYER2)
                > Marks(games[gameID].Board, PLAYER2)
          => \E f \in locked : f.op = "MakeBotMove"]_vars

\* C39: when a join_game has got a game, the name of the connection is the
\* name of a slot of that game, also for a name of more than 20 characters
C39_NameIsSlotName ==
    [][\A f \in locked \ locked' :
          /\ f.op = "FindOrCreateGame"
          /\ f.out.game # 0
          /\ "conn" \in DOMAIN f.args
          => Authorized(games'[f.out.game], connName'[f.args.conn])]_vars

\* the handler of the connection answers its reconnect frame with an error
ReconnectRefused(c) ==
    /\ frame[c].type = "reconnect"
    /\ frame'[c] = NoFrame
    /\ c \notin panicking

\* the connection calls JoinSpecificGame and will get an error, or gets it
JoinRefused(c) ==
    \E f \in (locked' \ locked) \cup (locked \ locked') :
       /\ f.op = "JoinSpecificGame"
       /\ f.out.err # "nil"
       /\ TaskOf(f) = c

\* C40: a join_game with a game id or a reconnect that is answered with an
\* error leaves the name and the game id of a connection that has a game as
\* they were
C40_RefusedKeepsAssociation ==
    [][\A c \in JoinNames :
          /\ connGame[c] # 0
          /\ ReconnectRefused(c) \/ JoinRefused(c)
          => connName'[c] = connName[c] /\ connGame'[c] = connGame[c]]_vars

====
